---- MODULE Spec2Model ----
(***************************************************************************)
(* Model of fetcher-mcp: the three tools fetch_url, get_links and extract, *)
(* the content pipeline of WebContentProcessor (navigation, stabilisation, *)
(* resilient snapshot, formatting) and the link harvester of get_links.    *)
(*                                                                         *)
(* One request is followed from its arguments to its end.  The browser     *)
(* collaborator (Playwright) is the environment: every call to it is       *)
(* appended to `calls` and its outcome is chosen nondeterministically.     *)
(*                                                                         *)
(* HTML is a sequence of tokens, one token per piece of markup; a URL is a *)
(* sequence of tokens too (scheme, separators, host, path segments).       *)
(***************************************************************************)
EXTENDS Integers, Sequences, FiniteSets, TLC

VARIABLES
    tool,      \* the tool that was called
    args,      \* its arguments
    pc,        \* position of the request in the handler
    calls,     \* the calls made to the browser collaborator and timers, in order
    res,       \* how the request ended
    navErr,    \* gotoError: the message of the failed page.goto
    snap,      \* locals of safelyGetPageInfo
    stabRet,   \* who called ensurePageStability
    proc,      \* locals of processContent
    session,   \* get_links: the static page, and the pages a client received
    ext,       \* extract: the page's elements, the field map, the result
    options,   \* the FetchOptions the handler built
    requests,  \* two requests in flight: the locals of each handler call
    openPages  \* the pages the browser collaborator has created

vars == <<tool, args, pc, calls, res, navErr, snap, stabRet, proc, session, ext, options,
          requests, openPages>>

----------------------------------------------------------------------------
(* Bounds and program constants *)

\* The longest page of link elements drawn element by element.
MaxPageLen == 2

\* The largest generated page of distinct links.
MaxBigLinks == 201

\* The most page.title() and page.content() calls that fail in one request.
MaxPageErrors == 3

\* The longest page of elements given to extract.
MaxDocLen == 2

\* The longest text given to the last steps of processContent.
MaxTextLen == 4

\* The most child elements of an element given to the sanitizer.
MaxChildren == 2

\* safelyGetPageInfo(page, _url, retries = 3)
retries == 3

\* const MIN_CONTENT_LENGTH = 100
MIN_CONTENT_LENGTH == 100

\* const limit = 100 (get_links page size)
limit == 100

\* dismissModals: for (let i = 0; i < 3; i++) press Escape
ModalPresses == 3

----------------------------------------------------------------------------
(* Error messages of the browser collaborator *)

TimeoutMsg == "page.goto: Timeout 30000ms exceeded."
TimedOutMsg == "page.goto: net::ERR_TIMED_OUT at https://host/"
NetMsg == "net::ERR_NAME_NOT_RESOLVED"
CtxMsg == "page.title: Execution context was destroyed, most likely because of a navigation"
ClosedMsg == "Target page, context or browser has been closed"
FormatMsg == "Maximum call stack size exceeded"
ReadyMsg == "page.waitForFunction: Timeout 30000ms exceeded."
LaunchMsg == "browserType.launch: Executable doesn't exist"
EmptyContentMsg == "Browser returned empty content"
UrlRequiredMsg == "URL parameter is required"
FieldsRequiredMsg == "fields parameter is required and must be a non-empty object"
InvalidRegexMsg == "Invalid search regex pattern"

\* What page.goto can fail with.
NavErrors == {TimeoutMsg, TimedOutMsg, NetMsg}

\* What page.goto fails with on a url that is no URL (fetchUrl does not trim).
InvalidUrlMsg == "page.goto: Protocol error (Page.navigate): Cannot navigate to invalid URL"

\* What page.title() and page.content() can fail with.
PageErrors == {CtxMsg, ClosedMsg}

\* gotoError.message.includes("Timeout") || gotoError.message.includes("timeout")
IsTimeoutError_AnyError(msg) == TRUE

IsTimeoutError(msg) == msg \in {TimeoutMsg}

\* (gotoError?.message || "").toLowerCase().includes("timeout")
IsTimeoutErrorAnyCase(msg) == msg \in {TimeoutMsg}

\* errorMessage.includes("Execution context was destroyed")
IsContextDestroyed(msg) == msg \in {CtxMsg}

----------------------------------------------------------------------------
(* HTML as a sequence of markup tokens *)

\* "ws": one whitespace character; "short": a paragraph of 20 characters;
\* "text": an article of 200 characters; "modal": an overlay the denylist
\* removes; "banner": an article of 200 characters inside an element the
\* denylist removes; "script": a script element; "shell": the empty document
\* <html><body></body></html> that cheerio serialises for an empty body.
HtmlTokens == {"ws", "short", "text", "modal", "banner", "script", "shell"}

TokLen(t) ==
    CASE t = "ws" -> 1
      [] t = "short" -> 20
      [] t = "text" -> 200
      [] t = "modal" -> 60
      [] t = "banner" -> 200
      [] t = "script" -> 30
      [] t = "shell" -> 26
      [] OTHER -> 1

RECURSIVE CharLen(_)
CharLen(h) == IF h = <<>> THEN 0 ELSE TokLen(Head(h)) + CharLen(Tail(h))

RECURSIVE TrimStart(_)
TrimStart(h) ==
    IF h = <<>> THEN <<>>
    ELSE IF Head(h) = "ws" THEN TrimStart(Tail(h)) ELSE h

RECURSIVE TrimEnd(_)
TrimEnd(h) ==
    IF h = <<>> THEN <<>>
    ELSE IF h[Len(h)] = "ws" THEN TrimEnd(SubSeq(h, 1, Len(h) - 1)) ELSE h

\* String.prototype.trim
Trim(h) == TrimEnd(TrimStart(h))

\* What page.content() can return.
Snapshots ==
    { <<>>, <<"ws">>, <<"modal", "short">>, <<"banner", "short">>,
      <<"ws", "text", "script", "ws">> }

PageTitles == {"Home"}

\* cleanHtml: scripts and denylisted elements are removed, whitespace
\* between tags is removed, the result is trimmed; an empty body makes
\* cheerio serialise the whole (empty) document.
cleanHtml(h) ==
    LET body == SelectSeq(h, LAMBDA t : t \notin {"script", "modal", "banner", "ws"})
    IN  IF body = <<>> THEN <<"shell">> ELSE body

\* new Readability(document).parse(): the article, or null (<<>>) without one.
ReadabilityParse(h) == SelectSeq(h, LAMBDA t : t \in {"text", "banner"})

\* turndownService.turndown: one Markdown block per element.
Turndown(h) == [i \in 1..Len(h) |-> <<"md", h[i]>>]

----------------------------------------------------------------------------
(* Arguments and their validation *)

Tools == {"fetch_url", "get_links", "extract"}

\* The values of JavaScript the handlers meet in their arguments and the
\* extractor in the page: null, undefined, a number, NaN, a string, an array
\* of strings.  A string is a sequence of characters; "data:image" and
\* "https://x" stand for those prefixes, each in one character.
Null == [kind |-> "null"]
Undefined == [kind |-> "undefined"]
Num(n) == [kind |-> "number", n |-> n]
NaN == [kind |-> "NaN"]
Str(s) == [kind |-> "string", s |-> s]
Arr(items) == [kind |-> "array", items |-> items]

\* String.prototype.trim on the character sequences.
RECURSIVE TrimChars(_)
TrimChars(s) ==
    IF s = <<>> THEN <<>>
    ELSE IF Head(s) = " " THEN TrimChars(Tail(s))
         ELSE IF s[Len(s)] = " " THEN TrimChars(SubSeq(s, 1, Len(s) - 1))
              ELSE s

\* The decimal number written with k digits 1.
RECURSIVE Ones(_)
Ones(k) == IF k = 0 THEN 0 ELSE 10 * Ones(k - 1) + 1

\* Number(value): undefined and a string that is no numeral give NaN, the
\* empty or blank string gives 0; the numerals of the model are written with
\* the digit 1.
Number(value) ==
    CASE value.kind = "number" -> value
      [] value.kind = "string" ->
            LET t == TrimChars(value.s)
            IN  IF \A i \in DOMAIN t : t[i] = "1" THEN Num(Ones(Len(t))) ELSE NaN
      [] OTHER -> NaN

\* Number(value) || fallback: NaN and 0 are falsy.
NumberOr(value, fallback) ==
    LET number == Number(value)
    IN  IF number = NaN \/ number.n = 0 THEN fallback ELSE number.n

\* An argument that was not given (undefined in the source).
NoArg == "<undefined>"

GoodUrl == "https://host/"

\* String.prototype.trim on the argument strings of the model.
StrTrim(s) ==
    CASE s = "  " -> ""
      [] s = " ( " -> "("
      [] s = "a\\ " -> "a\\"
      [] OTHER -> s

\* new RegExp(p, 'i') does not throw.
RegexCompiles(p) == p \notin {"(", " ( ", "a\\"}

\* args?.x || "" : undefined and the empty string are falsy.
OrEmpty(x) == IF x = NoArg THEN "" ELSE x

\* fetchUrl, lines 75-93: "ok", or the message of the error thrown.
ValidateFetchUrl_NoRegexCheck(a) ==
    IF OrEmpty(a.url) = "" THEN UrlRequiredMsg ELSE "ok"

ValidateFetchUrl(a) ==
    LET url == OrEmpty(a.url)
        searchPattern == IF OrEmpty(a.search) # "" THEN StrTrim(a.search) ELSE ""
    IN  IF url = "" THEN UrlRequiredMsg
        ELSE IF searchPattern # "" /\ ~RegexCompiles(searchPattern)
             THEN InvalidRegexMsg
             ELSE "ok"

\* getLinks, lines 51-76.
ValidateGetLinks(a) ==
    LET rawUrl == StrTrim(OrEmpty(a.url))
        searchPattern == IF OrEmpty(a.search) # "" THEN StrTrim(a.search) ELSE ""
    IN  IF rawUrl = "" THEN UrlRequiredMsg
        ELSE IF searchPattern # "" /\ ~RegexCompiles(searchPattern)
             THEN InvalidRegexMsg
             ELSE "ok"

\* extract, lines 133-146: fields must be a non-empty object.
ValidateExtract(a) ==
    LET rawUrl == StrTrim(OrEmpty(a.url))
    IN  IF rawUrl = "" THEN UrlRequiredMsg
        ELSE IF ~a.fields.given \/ ~a.fields.isObject \/ a.fields.keys = {}
             THEN FieldsRequiredMsg
             ELSE "ok"

Validate(t, a) ==
    CASE t = "fetch_url" -> ValidateFetchUrl(a)
      [] t = "get_links" -> ValidateGetLinks(a)
      [] t = "extract" -> ValidateExtract(a)

UrlArgs == {NoArg, "", "  ", GoodUrl}
SearchArgs == {NoArg, "  ", "item", "(", " ( "}
FieldsArgs ==
    { [given |-> FALSE, isObject |-> FALSE, keys |-> {}],
      [given |-> TRUE, isObject |-> FALSE, keys |-> {}],
      [given |-> TRUE, isObject |-> TRUE, keys |-> {}],
      [given |-> TRUE, isObject |-> TRUE, keys |-> {"title"}] }

NoFields == [given |-> FALSE, isObject |-> FALSE, keys |-> {}]

\* args.offset of get_links: <<>> when absent, <<n>> when given as n
OffsetArgs == {<<>>} \cup {<<n>> : n \in {-1, 0, 1, limit \div 2, limit, 2 * limit}}

ArgsOf(t) ==
    CASE t = "fetch_url" ->
            [url : UrlArgs, search : SearchArgs \ {"  "}, waitForNavigation : BOOLEAN,
             format : {"html", "markdown"}, fields : {NoFields}, offset : {<<>>},
             timeout : {Undefined}, maxLength : {Undefined}]
      [] t = "get_links" ->
            [url : UrlArgs, search : SearchArgs, waitForNavigation : {FALSE},
             format : {"html"}, fields : {NoFields}, offset : {<<>>, <<1>>},
             timeout : {Undefined}, maxLength : {Undefined}]
      [] t = "extract" ->
            [url : UrlArgs, search : {NoArg}, waitForNavigation : {FALSE},
             format : {"html"}, fields : FieldsArgs, offset : {<<>>},
             timeout : {Undefined}, maxLength : {Undefined}]

\* The url the handler navigates to (get_links and extract trim it).
RequestUrl == IF tool = "fetch_url" THEN OrEmpty(args.url) ELSE StrTrim(OrEmpty(args.url))

\* options.search: searchPattern || undefined
OptionsSearch == IF OrEmpty(args.search) # "" THEN StrTrim(args.search) ELSE ""

\* The FetchOptions of fetchUrl (lines 95-110), getLinks (lines 78-89) and
\* extract: timeout and maxLength.
Options(t, a) ==
    [timeout |-> NumberOr(a.timeout, 30000),
     maxLength |-> IF t = "fetch_url" THEN NumberOr(a.maxLength, 0) ELSE 0]

\* Before the handler built its options.
NoOptions == [timeout |-> 0, maxLength |-> 0]

----------------------------------------------------------------------------
(* Results *)

NoResult == [kind |-> "none"]

\* A thrown Error that leaves the handler.
Exception(msg) == [kind |-> "exception", error |-> msg]

\* processPageContent, lines 244-248 and 219-223: the failure FetchResult.
FailureResult_NoUrl(url, msg) ==
    [kind |-> "result", success |-> FALSE,
     content |-> [title |-> "Error", url |-> "", cause |-> msg], error |-> msg]

FailureResult(url, msg) ==
    [kind |-> "result", success |-> FALSE,
     content |-> [title |-> "Error", url |-> url, cause |-> msg], error |-> msg]

\* processPageContent, lines 156-159 and 235-238: the success FetchResult.
SuccessResult(content) ==
    [kind |-> "result", success |-> TRUE, content |-> content, error |-> NoArg]

\* safelyGetPageInfo, lines 296-298: the locals at entry; `errors` keeps the
\* message of every failed attempt, `thrown` and `returned` how the call ended.
NoSnap == [caller |-> "none", attempt |-> 0, pageTitle |-> "Untitled", html |-> <<>>,
           errors |-> <<>>, thrown |-> NoArg, returned |-> FALSE]

\* processContent: its caller, the html argument, contentToProcess, and
\* whether the modal-dismissal retry ran.
NoProc == [caller |-> "none", html |-> <<>>, content |-> <<>>, retried |-> FALSE,
           thrown |-> NoArg]

----------------------------------------------------------------------------
(* The content pipeline: WebContentProcessor.processPageContent *)

Call(op, out) == <<op, out>>

\* The environment may still fail a page.title() or page.content() call.
MayFail ==
    Cardinality({i \in 1..Len(calls) :
                    calls[i][1] \in {"title", "content"} /\ calls[i][2] # "ok"}) < MaxPageErrors

\* The outcomes of page.goto(url): "ok" or an error message.
GotoOutcomes == IF RequestUrl = GoodUrl THEN {"ok"} \cup NavErrors ELSE {InvalidUrlMsg}

\* line 318: retry only an invalidated execution context, and only while
\* attempts are left.
SgpiShouldRetry_AnyError(msg, attempt) == attempt < retries

SgpiShouldRetry(msg, attempt) == IsContextDestroyed(msg) /\ attempt < retries

\* line 150: html && html.trim().length > 0
HtmlRetrieved(h) == h # <<>> /\ CharLen(Trim(h)) > 0

\* line 217: !html
EmptyContent(h) == h = <<>>

\* The catch of line 161 rethrowing the error it caught.
ProcessContentThrew_SecondaryError(msg) ==
    /\ res' = FailureResult(RequestUrl, msg)
    /\ pc' = "cleanup"

\* An exception leaves processContent: on the late path the handler of line
\* 161 swallows it and line 167 throws gotoError; line 239 catches either.
ProcessContentThrew(msg) ==
    /\ res' = FailureResult(RequestUrl, IF proc.caller = "late" THEN navErr ELSE msg)
    /\ pc' = "cleanup"

\* safelyGetPageInfo returned s.pageTitle and s.html to its caller.
AfterSnapshot(s) ==
    CASE s.caller = "main" ->
            IF EmptyContent(s.html)
            THEN /\ res' = FailureResult(RequestUrl, EmptyContentMsg)
                 /\ pc' = "cleanup"
                 /\ proc' = proc
            ELSE /\ proc' = [NoProc EXCEPT !.caller = "main", !.html = s.html,
                                          !.content = s.html]
                 /\ pc' = "pc_clean"
                 /\ res' = res
      [] s.caller = "late" ->
            IF HtmlRetrieved(s.html)
            THEN /\ proc' = [NoProc EXCEPT !.caller = "late", !.html = s.html,
                                          !.content = s.html]
                 /\ pc' = "pc_clean"
                 /\ res' = res
            ELSE /\ res' = FailureResult(RequestUrl, navErr)
                 /\ pc' = "cleanup"
                 /\ proc' = proc
      [] s.caller = "modal" ->
            \* lines 358-365: freshHtml && freshHtml.length > 0
            /\ proc' = [proc EXCEPT !.content =
                            IF s.html # <<>> THEN cleanHtml(s.html) ELSE @]
            /\ pc' = "pc_format"
            /\ res' = res

\* safelyGetPageInfo threw msg (line 332).
SnapshotThrew(s, msg) ==
    CASE s.caller = "main" ->
            /\ res' = FailureResult(RequestUrl, msg)
            /\ pc' = "cleanup"
            /\ proc' = proc
      [] s.caller = "late" ->
            /\ res' = FailureResult(RequestUrl, navErr)
            /\ pc' = "cleanup"
            /\ proc' = proc
      [] s.caller = "modal" ->
            /\ ProcessContentThrew(msg)
            /\ proc' = [proc EXCEPT !.thrown = msg]

\* lines 314-334: the catch block of one attempt.
SgpiCatch(s, msg) ==
    LET f == [s EXCEPT !.errors = Append(@, msg)]
    IN  IF SgpiShouldRetry(msg, s.attempt)
        THEN /\ snap' = f
             /\ pc' = "sgpi_wait"
             /\ UNCHANGED <<res, proc>>
        ELSE /\ snap' = [f EXCEPT !.thrown = msg]
             /\ SnapshotThrew(f, msg)

SgpiStart(caller) ==
    /\ snap' = [NoSnap EXCEPT !.caller = caller]
    /\ pc' = "sgpi_loop"

\* lines 127-168: page.goto and its catch block.
PpcGoto ==
    /\ pc = "ppc_goto"
    /\ \E out \in GotoOutcomes :
          /\ calls' = calls \o <<Call("setDefaultTimeout", "ok"), Call("goto", out)>>
          /\ IF out = "ok"
             THEN /\ IF args.waitForNavigation
                     THEN pc' = "ppc_waitnav" /\ stabRet' = stabRet
                     ELSE pc' = "stab" /\ stabRet' = "main"
                  /\ UNCHANGED <<navErr, snap, res>>
             ELSE /\ navErr' = out
                  /\ IF IsTimeoutError(out)
                     THEN SgpiStart("late") /\ res' = res
                     ELSE /\ res' = FailureResult(RequestUrl, out)
                          /\ pc' = "cleanup"
                          /\ snap' = snap
                  /\ stabRet' = stabRet
    /\ UNCHANGED <<tool, args, proc, session, ext, options, requests, openPages>>

\* lines 171-209: the optional wait for a further navigation; every outcome
\* is logged and the handler goes on.
PpcWaitNav ==
    /\ pc = "ppc_waitnav"
    /\ \E out \in {"ok", "Navigation timeout", ClosedMsg} :
            calls' = Append(calls, Call("waitForNavigation", out))
    /\ pc' = "stab"
    /\ stabRet' = "main"
    /\ UNCHANGED <<tool, args, res, navErr, snap, proc, session, ext, options, requests, openPages>>

\* ensurePageStability returned to its caller.
AfterStability ==
    IF stabRet = "main"
    THEN SgpiStart("main")
    ELSE pc' = "sgpi_loop" /\ snap' = snap

\* lines 253-270, with the catch block removed.
EnsurePageStability_Rethrows ==
    /\ pc = "stab"
    /\ \/ /\ calls' = calls \o <<Call("waitForFunction", "ok"), Call("waitForTimeout500", "ok")>>
          /\ AfterStability
          /\ res' = res
       \/ /\ calls' = Append(calls, Call("waitForFunction", ReadyMsg))
          /\ res' = FailureResult(RequestUrl, ReadyMsg)
          /\ pc' = "cleanup"
          /\ snap' = snap
    /\ UNCHANGED <<tool, args, navErr, stabRet, proc, session, ext, options, requests, openPages>>

\* lines 253-270: wait for readyState "complete", then 500 ms; a failure is
\* logged and swallowed.
EnsurePageStability ==
    /\ pc = "stab"
    /\ \/ calls' = calls \o <<Call("waitForFunction", "ok"), Call("waitForTimeout500", "ok")>>
       \/ calls' = Append(calls, Call("waitForFunction", ReadyMsg))
    /\ AfterStability
    /\ UNCHANGED <<tool, args, res, navErr, stabRet, proc, session, ext, options, requests, openPages>>

\* lines 300-306: the loop test, attempt++ and page.title(); line 337 when
\* the loop ends.
SgpiLoop ==
    /\ pc = "sgpi_loop"
    /\ IF snap.attempt < retries
       THEN LET s == [snap EXCEPT !.attempt = @ + 1]
            IN  \/ \E t \in PageTitles :
                     /\ calls' = Append(calls, Call("title", "ok"))
                     /\ snap' = [s EXCEPT !.pageTitle = t]
                     /\ pc' = "sgpi_content"
                     /\ UNCHANGED <<res, proc>>
                \/ \E m \in PageErrors :
                     /\ MayFail
                     /\ calls' = Append(calls, Call("title", m))
                     /\ SgpiCatch(s, m)
       ELSE /\ snap' = [snap EXCEPT !.returned = TRUE]
            /\ AfterSnapshot(snap)
            /\ calls' = calls
    /\ UNCHANGED <<tool, args, navErr, stabRet, session, ext, options, requests, openPages>>

\* lines 309-312: page.content() and the return.
SgpiContent ==
    /\ pc = "sgpi_content"
    /\ \/ \E h \in Snapshots :
            /\ calls' = Append(calls, Call("content", "ok"))
            /\ snap' = [snap EXCEPT !.html = h, !.returned = TRUE]
            /\ AfterSnapshot([snap EXCEPT !.html = h])
       \/ \E m \in PageErrors :
            /\ MayFail
            /\ calls' = Append(calls, Call("content", m))
            /\ SgpiCatch(snap, m)
    /\ UNCHANGED <<tool, args, navErr, stabRet, session, ext, options, requests, openPages>>

\* lines 322-323 with a sleep whose promise is never resolved.
SgpiWait_NeverResumes ==
    /\ pc = "sgpi_wait"
    /\ UNCHANGED vars

\* lines 322-323: sleep one second, then ensurePageStability.
SgpiWait ==
    /\ pc = "sgpi_wait"
    /\ calls' = Append(calls, Call("setTimeout1000", "ok"))
    /\ pc' = "stab"
    /\ stabRet' = "sgpi"
    /\ UNCHANGED <<tool, args, res, navErr, snap, proc, session, ext, options, requests, openPages>>

----------------------------------------------------------------------------
(* processContent: cleaning, the modal-dismissal retry, formatting *)

\* searchRegex.test(line) for the patterns of the model: "item" occurs in the
\* article text only.
RegexTest(pattern, t) == pattern = "item" /\ t = "text"

\* lines 370-415 with Readability on contentToProcess, the cleaned html.
ToMarkdown_OnCleaned(html, content, search) ==
    LET article == ReadabilityParse(content)
        source == IF article = <<>> THEN content ELSE article
        md == Turndown(source)
    IN  IF search # ""
        THEN SelectSeq(md, LAMBDA line : RegexTest(search, line[2]))
        ELSE md

\* lines 370-415: Readability on the ORIGINAL html, turndown, search filter.
ToMarkdown(html, content, search) ==
    LET article == ReadabilityParse(html)
        source == IF article = <<>> THEN content ELSE article
        md == Turndown(source)
    IN  IF search # ""
        THEN SelectSeq(md, LAMBDA line : RegexTest(search, line[2]))
        ELSE md

\* lines 419-427: contentToProcess.substring(0, maxLength) when maxLength is
\* positive and the content is longer.  The content is a sequence of
\* characters where it is cut; a request without maxLength has the
\* maxLength 0 and its content is never cut.
Truncate(content, maxLength) ==
    IF maxLength > 0 /\ Len(content) > maxLength
    THEN SubSeq(content, 1, maxLength)
    ELSE content

\* lines 341-367 without the test `contentToProcess.trim().length <
\* MIN_CONTENT_LENGTH`: the modals are dismissed after every cleaning.
PcClean_AlwaysDismiss ==
    /\ pc = "pc_clean"
    /\ proc' = [proc EXCEPT !.content = cleanHtml(proc.html)]
    /\ pc' = "pc_dismiss"
    /\ UNCHANGED <<tool, args, calls, res, navErr, snap, stabRet, session, ext, options, requests, openPages>>

\* lines 341-367: cleanHtml, then the test for too small a result.
PcClean ==
    /\ pc = "pc_clean"
    /\ LET contentToProcess == cleanHtml(proc.html)
       IN  /\ proc' = [proc EXCEPT !.content = contentToProcess]
           /\ pc' = IF CharLen(Trim(contentToProcess)) < MIN_CONTENT_LENGTH
                    THEN "pc_dismiss"
                    ELSE "pc_format"
    /\ UNCHANGED <<tool, args, calls, res, navErr, snap, stabRet, session, ext, options, requests, openPages>>

RECURSIVE PressCalls(_)
PressCalls(k) ==
    IF k = 0 THEN <<>>
    ELSE PressCalls(k - 1) \o <<Call("press", "ok"), Call("waitForTimeout500", "ok")>>

\* lines 273-292 and 355-358: dismissModals presses Escape ModalPresses
\* times (k = ModalPresses), or its first press fails (k = 0) and the
\* failure is swallowed; then the second snapshot starts.
PcDismiss ==
    /\ pc = "pc_dismiss"
    /\ \E k \in {0, ModalPresses} :
          calls' = calls \o PressCalls(k) \o
                     (IF k = ModalPresses
                      THEN <<Call("waitForTimeout1000", "ok")>>
                      ELSE <<Call("press", ClosedMsg)>>)
    /\ proc' = [proc EXCEPT !.retried = TRUE]
    /\ SgpiStart("modal")
    /\ UNCHANGED <<tool, args, res, navErr, stabRet, session, ext, options, requests, openPages>>

\* lines 369-429: formatting and truncation; JSDOM, Readability and turndown
\* can throw on markdown.
PcFormat ==
    /\ pc = "pc_format"
    /\ \/ /\ res' = SuccessResult(Truncate(
                       IF args.format = "markdown"
                       THEN ToMarkdown(proc.html, proc.content, OptionsSearch)
                       ELSE proc.content,
                       options.maxLength))
          /\ pc' = "cleanup"
          /\ proc' = proc
       \/ /\ args.format = "markdown"
          /\ ProcessContentThrew(FormatMsg)
          /\ proc' = [proc EXCEPT !.thrown = FormatMsg]
    /\ UNCHANGED <<tool, args, calls, navErr, snap, stabRet, session, ext, options, requests, openPages>>

----------------------------------------------------------------------------
(* The tool handlers around the pipeline *)

\* The validation at the head of fetchUrl, getLinks and extract: an invalid
\* request throws before BrowserService is constructed.
Start ==
    /\ pc = "start"
    /\ LET v == Validate(tool, args)
       IN  IF v = "ok"
           THEN pc' = "createBrowser" /\ res' = res /\ options' = Options(tool, args)
           ELSE pc' = "done" /\ res' = [kind |-> "rejected", error |-> v]
                /\ options' = options
    /\ UNCHANGED <<tool, args, calls, navErr, snap, stabRet, proc, session, ext,
                   requests, openPages>>

\* The launch placed before the try block: its failure skips the finally.
CreateBrowser_OutsideTry ==
    /\ pc = "createBrowser"
    /\ \/ /\ calls' = calls \o <<Call("createBrowser", "ok"), Call("createContext", "ok"),
                                 Call("createPage", "ok")>>
          /\ pc' = CASE tool = "fetch_url" -> "ppc_goto"
                     [] tool = "get_links" -> "gl_goto"
                     [] tool = "extract" -> "ex_goto"
          /\ res' = res
       \/ /\ calls' = Append(calls, Call("createBrowser", LaunchMsg))
          /\ res' = Exception(LaunchMsg)
          /\ pc' = "done"
    /\ UNCHANGED <<tool, args, navErr, snap, stabRet, proc, session, ext, options, requests, openPages>>

\* createBrowser, createContext, createPage inside the try block.
CreateBrowser ==
    /\ pc = "createBrowser"
    /\ \/ /\ calls' = calls \o <<Call("createBrowser", "ok"), Call("createContext", "ok"),
                                 Call("createPage", "ok")>>
          /\ pc' = CASE tool = "fetch_url" -> "ppc_goto"
                     [] tool = "get_links" -> "gl_goto"
                     [] tool = "extract" -> "ex_goto"
          /\ res' = res
       \/ /\ calls' = Append(calls, Call("createBrowser", LaunchMsg))
          /\ res' = Exception(LaunchMsg)
          /\ pc' = "cleanup"
    /\ UNCHANGED <<tool, args, navErr, snap, stabRet, proc, session, ext, options, requests, openPages>>

\* finally { await browserService.cleanup(browser, page) }
Cleanup ==
    /\ pc = "cleanup"
    /\ calls' = Append(calls, Call("cleanup", "ok"))
    /\ pc' = "done"
    /\ UNCHANGED <<tool, args, res, navErr, snap, stabRet, proc, session, ext, options, requests, openPages>>

----------------------------------------------------------------------------
(* The link harvester of getLinks *)

\* A URL or href is a sequence of tokens; a token is the code that places it
\* in code-unit order: " " < "#" < ".css" < ".html" < ".pdf" < ".png" <
\* ".PNG" (lower-cased by isAsset) < "/" < "//" < "?" < path segments.
\* "https://" is one token, a host name is one token.
Tok == [sp |-> 0, hash |-> 1, css |-> 2, html |-> 3, pdf |-> 4, png |-> 5, pngUpper |-> 6,
        slash |-> 7, dslash |-> 8, q |-> 9,
        https |-> 10, host |-> 11, other |-> 12, badhost |-> 13,
        javascript |-> 14, mailto |-> 15, item |-> 16, seg |-> 20]

\* Path segment number k.
Seg(k) == Tok.seg + k

\* new URL(normalizedUrl) for the page that was fetched: https://host/
BaseUrl == <<Tok.https, Tok.host, Tok.slash>>

\* base.origin, base.protocol (with the "//" the model keeps in one token)
BaseOrigin == SubSeq(BaseUrl, 1, 2)

\* cleanup: (s || "").replace(/\s+/g, " ").trim()
RECURSIVE CollapseSpaces(_)
CollapseSpaces(h) ==
    IF Len(h) < 2 THEN h
    ELSE IF h[1] = Tok.sp /\ h[2] = Tok.sp THEN CollapseSpaces(Tail(h))
         ELSE <<h[1]>> \o CollapseSpaces(Tail(h))

RECURSIVE StripStart(_)
StripStart(h) ==
    IF h # <<>> /\ Head(h) = Tok.sp THEN StripStart(Tail(h)) ELSE h

RECURSIVE StripEnd(_)
StripEnd(h) ==
    IF h # <<>> /\ h[Len(h)] = Tok.sp THEN StripEnd(SubSeq(h, 1, Len(h) - 1)) ELSE h

cleanup(h) == StripEnd(StripStart(CollapseSpaces(h)))

\* lines 140-151
isSkippable(h) ==
    \/ h = <<>>
    \/ h = <<Tok.hash>>
    \/ Head(h) = Tok.hash
    \/ Head(h) \in {Tok.javascript, Tok.mailto}

\* lines 154-182: the path, without query string and fragment, ends in an
\* asset extension.
AssetExts == {Tok.css, Tok.pdf, Tok.png}

ToLower(t) == IF t = Tok.pngUpper THEN Tok.png ELSE t

\* s.split(sep)[0]
BeforeFirst(u, sep) ==
    IF \E i \in 1..Len(u) : u[i] = sep
    THEN SubSeq(u, 1, (CHOOSE i \in 1..Len(u) :
                          u[i] = sep /\ \A j \in 1..(i - 1) : u[j] # sep) - 1)
    ELSE u

\* lines 178-181 without the split: the extension is looked for at the end
\* of the whole URL.
isAsset_WholeUrl(url) == url # <<>> /\ ToLower(url[Len(url)]) \in AssetExts

isAsset(url) ==
    LET urlPath == BeforeFirst(BeforeFirst(url, Tok.q), Tok.hash)
    IN  urlPath # <<>> /\ ToLower(urlPath[Len(urlPath)]) \in AssetExts

\* new URL(href, base) throws: the href names a host that is no host name.
UrlThrows(href) ==
    /\ Len(href) >= 2
    /\ Head(href) \in {Tok.https, Tok.dslash}
    /\ href[2] = Tok.badhost

\* new URL(href, base).toString() for hrefs it accepts: an absolute URL
\* stays, with "/" as the path when none is given; "//host..." takes the
\* protocol of the base; "/path" takes its origin; anything else is
\* relative to the directory of the base.
UrlResolve(href) ==
    LET withPath(u) == IF Len(u) = 2 THEN Append(u, Tok.slash) ELSE u
    IN  CASE Head(href) = Tok.https -> withPath(href)
          [] Head(href) = Tok.dslash -> withPath(<<Tok.https>> \o Tail(href))
          [] Head(href) = Tok.slash -> BaseOrigin \o href
          [] OTHER -> BaseUrl \o href

\* lines 236-250
toAbsolute(href) ==
    IF ~UrlThrows(href) THEN UrlResolve(href)
    ELSE IF Head(href) = Tok.dslash THEN <<Tok.https>> \o Tail(href)
         ELSE IF Head(href) = Tok.slash THEN BaseOrigin \o href
              ELSE href

\* Code-unit order of two URLs (what Array.prototype.sort compares by).
RECURSIVE UrlLess(_, _)
UrlLess(a, b) ==
    IF b = <<>> THEN FALSE
    ELSE IF a = <<>> THEN TRUE
         ELSE IF Head(a) # Head(b) THEN Head(a) < Head(b)
              ELSE UrlLess(Tail(a), Tail(b))

\* The stable merge of two sorted lists, around the middle element of the
\* first: the elements of the second that are less than it go before it.
RECURSIVE Merge(_, _)
Merge(a, b) ==
    IF a = <<>> THEN b
    ELSE IF b = <<>> THEN a
         ELSE LET mid == (Len(a) + 1) \div 2
                  below == Cardinality({j \in 1..Len(b) : UrlLess(b[j], a[mid])})
              IN  Merge(SubSeq(a, 1, mid - 1), SubSeq(b, 1, below))
                  \o <<a[mid]>>
                  \o Merge(SubSeq(a, mid + 1, Len(a)), SubSeq(b, below + 1, Len(b)))

\* line 272 left out: the list stays in first-seen order.
Sort_None(s) == s

\* line 272: allLinks.sort()
RECURSIVE Sort(_)
Sort(s) ==
    IF Len(s) < 2 THEN s
    ELSE LET mid == Len(s) \div 2
         IN  Merge(Sort(SubSeq(s, 1, mid)), Sort(SubSeq(s, mid + 1, Len(s))))

\* The elements of a page that can carry a link target: [kind, href] with
\* kind "a" (anchor with href), "svg_a" (SVG anchor with xlink:href only),
\* "area", "data" (data-href), "onclick" (the literal target of the handler,
\* <<>> when it has none).
OfKinds(page, kinds) ==
    LET sel == SelectSeq(page, LAMBDA e : e.kind \in kinds)
    IN  [i \in 1..Len(sel) |-> sel[i].href]

\* lines 184-231: the five passes, each pushing through pushLink.
rawLinks(page) ==
    LET found == OfKinds(page, {"a"}) \o OfKinds(page, {"a", "svg_a"})
                 \o OfKinds(page, {"area"}) \o OfKinds(page, {"data"})
                 \o OfKinds(page, {"onclick"})
        cleaned == [i \in 1..Len(found) |-> cleanup(found[i])]
    IN  SelectSeq(cleaned, LAMBDA h : ~isSkippable(h))

\* lines 253-263 keyed on nothing: every non-asset URL is kept.
DedupFilter_KeepAll(urls, seen) == SelectSeq(urls, LAMBDA u : ~isAsset(u))

\* lines 253-263: the filter with the `seen` set.
\* Each half of the list is filtered in turn, the second with the URLs the
\* first has added to `seen`.
RECURSIVE DedupFilter(_, _)
DedupFilter(urls, seen) ==
    IF urls = <<>> THEN <<>>
    ELSE IF Len(urls) = 1
         THEN IF urls[1] \in seen \/ isAsset(urls[1]) THEN <<>> ELSE urls
         ELSE LET mid == Len(urls) \div 2
                  first == DedupFilter(SubSeq(urls, 1, mid), seen)
              IN  first \o DedupFilter(SubSeq(urls, mid + 1, Len(urls)),
                                       seen \cup {first[i] : i \in 1..Len(first)})

\* searchRegex.test(url) for the pattern of the model: "item" matches the
\* URLs with a segment "item".
UrlRegexTest(pattern, url) == pattern = "item" /\ \E i \in 1..Len(url) : url[i] = Tok.item

\* lines 253-272: allLinks after deduplication, search filter and sort.
allLinks(page, searchPattern) ==
    LET raw == rawLinks(page)
        abs == [i \in 1..Len(raw) |-> toAbsolute(raw[i])]
        kept == DedupFilter(abs, {})
        matching == IF searchPattern # ""
                    THEN SelectSeq(kept, LAMBDA u : UrlRegexTest(searchPattern, u))
                    ELSE kept
    IN  Sort(matching)

\* Array.prototype.slice(start, end - 1 excluded): one link too few.
Slice_Short(s, start, end) ==
    LET n == Len(s)
        from == IF start < 0 THEN (IF n + start < 0 THEN 0 ELSE n + start)
                ELSE (IF start > n THEN n ELSE start)
        to == IF end - 1 < 0 THEN 0 ELSE (IF end - 1 > n THEN n ELSE end - 1)
    IN  IF from >= to THEN <<>> ELSE SubSeq(s, from + 1, to)

\* Array.prototype.slice(start, end): negative indices count from the end.
Slice(s, start, end) ==
    LET n == Len(s)
        from == IF start < 0 THEN (IF n + start < 0 THEN 0 ELSE n + start)
                ELSE (IF start > n THEN n ELSE start)
        to == IF end < 0 THEN (IF n + end < 0 THEN 0 ELSE n + end)
              ELSE (IF end > n THEN n ELSE end)
    IN  IF from >= to THEN <<>> ELSE SubSeq(s, from + 1, to)

\* line 277 with <= for <
HasMore_OffByOne(offset, total) == offset + limit <= total

\* line 277
HasMore(offset, total) == offset + limit < total

\* line 62: Number(args?.offset) || 0
OffsetOf(a) == IF a.offset = <<>> THEN 0 ELSE a.offset[1]

\* lines 274-292: the page of links returned for `all` at `offset`.
LinksResult(all, offset) ==
    LET paginatedLinks == Slice(all, offset, offset + limit)
    IN  [kind |-> "links", origin |-> BaseOrigin, count |-> Len(paginatedLinks),
         has_more |-> HasMore(offset, Len(all)), links |-> paginatedLinks]

----------------------------------------------------------------------------
(* Pages of link elements *)

El(kind, href) == [kind |-> kind, href |-> href]

LinkElements ==
    { El("a", <<Tok.slash, Seg(0)>>),
      El("a", <<Tok.https, Tok.host, Tok.slash, Seg(0)>>),
      El("a", <<Tok.sp, Tok.slash, Seg(0), Tok.sp>>),
      El("a", <<Tok.hash, Seg(0)>>),
      El("svg_a", <<Tok.slash, Tok.item>>),
      El("area", <<Tok.slash, Seg(1), Tok.png>>),
      El("data", <<Tok.dslash, Tok.other, Tok.slash, Seg(0)>>),
      El("data", <<Tok.dslash, Tok.badhost, Tok.slash, Seg(0)>>),
      El("onclick", <<Tok.slash, Seg(0), Tok.q, Tok.png>>),
      El("onclick", <<>>),
      El("a", <<Tok.slash, Seg(1), Tok.pngUpper>>),
      El("svg_a", <<Tok.slash, Seg(1), Tok.pdf, Tok.q, Seg(0)>>),
      El("onclick", <<Tok.slash, Seg(1), Tok.css, Tok.hash, Seg(0)>>) }

RECURSIVE SeqsUpTo(_, _)
SeqsUpTo(S, n) ==
    IF n = 0 THEN {<<>>}
    ELSE LET shorter == SeqsUpTo(S, n - 1)
         IN  shorter \cup {Append(p, e) : p \in shorter, e \in S}

SmallPages == SeqsUpTo(LinkElements, MaxPageLen)

\* A page of n anchors to n distinct paths, in descending order of path, the
\* hrefs alternately root-relative and absolute.
BigPage(n) ==
    LET base == 16
        path(k) == <<Tok.slash, Seg(k \div base), Seg(k % base)>>
    IN  [i \in 1..n |->
            El("a", IF i % 2 = 1 THEN path(n - i) ELSE BaseOrigin \o path(n - i))]

BigCounts == {limit - 1, limit, limit + 1, limit + limit \div 2, 2 * limit, MaxBigLinks}

BigPages == {BigPage(n) : n \in BigCounts}

\* The pages get_links meets in the handler-level specification.
HandlerPages ==
    { <<>>,
      <<El("a", <<Tok.slash, Seg(0)>>), El("a", <<Tok.https, Tok.host, Tok.slash, Seg(0)>>)>>,
      <<El("svg_a", <<Tok.slash, Tok.item>>), El("area", <<Tok.slash, Seg(1), Tok.png>>)>> }

\* `again` holds <<k, r>> once the client has repeated its k-th request and
\* received r.
NoSession == [page |-> <<>>, all |-> <<>>, pages |-> <<>>, next |-> 0, again |-> <<>>]

----------------------------------------------------------------------------
(* The field extractor of extract *)

\* The regex patterns of the model: "1+" has no capture group, "a(1+)" has
\* one, the group of "(a)|1" takes part in a match only when "a" matched,
\* "(" does not compile.

\* The longest run of "1" that starts at position i.
RunOfOnes(t, i) ==
    LET ends == {j \in i..Len(t) : \A k \in i..j : t[k] = "1"}
    IN  SubSeq(t, i, CHOOSE j \in ends : \A k \in ends : k <= j)

\* The pattern matches at position i of t.
MatchesAt(pattern, t, i) ==
    CASE pattern = "1+" -> t[i] = "1"
      [] pattern = "a(1+)" -> t[i] = "a" /\ i < Len(t) /\ t[i + 1] = "1"
      [] pattern = "(a)|1" -> t[i] \in {"a", "1"}
      [] OTHER -> FALSE

\* The match array of the match at position i: the full match, then the
\* capture groups.
MatchAt(pattern, t, i) ==
    CASE pattern = "1+" -> <<Str(RunOfOnes(t, i))>>
      [] pattern = "a(1+)" ->
            <<Str(<<"a">> \o RunOfOnes(t, i + 1)), Str(RunOfOnes(t, i + 1))>>
      [] pattern = "(a)|1" ->
            <<Str(<<t[i]>>), IF t[i] = "a" THEN Str(<<"a">>) ELSE Undefined>>

\* The match arrays of the successive matches from position `from` on.
RECURSIVE MatchAll(_, _, _)
MatchAll(pattern, t, from) ==
    LET starts == {i \in from..Len(t) : MatchesAt(pattern, t, i)}
    IN  IF starts = {} THEN <<>>
        ELSE LET i == CHOOSE j \in starts : \A k \in starts : j <= k
                 m == MatchAt(pattern, t, i)
             IN  <<m>> \o MatchAll(pattern, t, i + Len(m[1].s))

\* text.match(regex): without the g flag the match array of the first
\* match, with it the full matches of all matches; <<>> for null.
StringMatch(text, pattern, flags) ==
    LET all == MatchAll(pattern, text, 1)
    IN  IF all = <<>> THEN <<>>
        ELSE IF flags = "g" THEN [i \in 1..Len(all) |-> all[i][1]]
             ELSE all[1]

\* match[1] !== undefined ? match[1] : match[0]
GroupOrFull(match) ==
    IF Len(match) >= 2 /\ match[2] # Undefined THEN match[2] ELSE match[1]

\* lines 56-84
applyRegex(text, pattern, flags, allMatches) ==
    IF ~RegexCompiles(pattern) THEN Null
    ELSE IF allMatches
         THEN \* line 67: without flags the flag string is "undefinedg"
              \* and the constructor throws.
              LET matches == MatchAll(pattern, text, 1)
              IN  IF flags = NoArg \/ matches = <<>> THEN Null
                  ELSE Arr([i \in 1..Len(matches) |-> GroupOrFull(matches[i]).s])
         ELSE LET match == StringMatch(text, pattern, flags)
              IN  IF match = <<>> THEN Null ELSE GroupOrFull(match)

\* An element of the page: its tag, whether the selectors of the model
\* match it, its text content, its src, srcset and href attributes (Null
\* when absent).
Element(tag, main, text, src, srcset, href) ==
    [tag |-> tag, main |-> main, text |-> text,
     attrs |-> [src |-> src, srcset |-> srcset, href |-> href]]

\* lines 89-104
extractElementContent(element, regexPattern, regexFlags, allMatches) ==
    LET textContent == TrimChars(element.text)
    IN  IF textContent = <<>> THEN Null
        ELSE IF regexPattern # NoArg
             THEN applyRegex(textContent, regexPattern, regexFlags, allMatches)
             ELSE Str(textContent)

\* lines 109-127
extractAttribute(element, attrName, regexPattern, regexFlags, allMatches) ==
    LET value == element.attrs[attrName]
    IN  IF value = Null \/ TrimChars(value.s) = <<>> THEN Null
        ELSE LET trimmedValue == TrimChars(value.s)
             IN  IF regexPattern # NoArg
                 THEN applyRegex(trimmedValue, regexPattern, regexFlags, allMatches)
                 ELSE Str(trimmedValue)

\* cleanHtml as the extractor sees it: lines 88-95 remove the p (div, span,
\* section) elements without text and children, line 98 removes the images
\* whose src is a data:image URI.
cleanElements(html) ==
    SelectSeq(html, LAMBDA e :
        /\ ~(e.tag = "P" /\ TrimChars(e.text) = <<>>)
        /\ ~(e.tag = "IMG" /\ e.attrs.src # Null /\ e.attrs.src.s # <<>>
                /\ Head(e.attrs.src.s) = "data:image"))

\* A field configuration: isObject is false for a configuration that is no
\* object (a bare selector string); selector is NoArg when it is no string.
FieldConfig(selector, attr, regex, regexFlags, allMatches) ==
    [isObject |-> TRUE, selector |-> selector, attr |-> attr, regex |-> regex,
     regexFlags |-> regexFlags, allMatches |-> allMatches]

\* document.querySelectorAll(selector) throws a SyntaxError.
SelectorThrows(selector) == selector = "[["

\* document.querySelectorAll(selector), in document order.
querySelectorAll(document, selector) ==
    SelectSeq(document, LAMBDA e :
        CASE selector = ".main" -> e.main
          [] selector = "img.main" -> e.main /\ e.tag = "IMG"
          [] OTHER -> FALSE)

\* lines 256-262 and 285-291: the extraction of one matched element.
ElementContent(match, fieldConfig) ==
    IF fieldConfig.attr # NoArg
    THEN extractAttribute(match, fieldConfig.attr, fieldConfig.regex,
                          fieldConfig.regexFlags, FALSE)
    ELSE extractElementContent(match, fieldConfig.regex, fieldConfig.regexFlags, FALSE)

\* lines 249-274 with `allContents` returned as it is, empty or not.
AllContents_EmptyArray(matches, fieldConfig) ==
    LET contents == [i \in 1..Len(matches) |-> ElementContent(matches[i], fieldConfig)]
        allContents == SelectSeq(contents, LAMBDA c : c # Null)
    IN  Arr([i \in 1..Len(allContents) |-> allContents[i].s])

\* lines 249-274: the contents of all matches that are not null, or null.
AllContents(matches, fieldConfig) ==
    LET contents == [i \in 1..Len(matches) |-> ElementContent(matches[i], fieldConfig)]
        allContents == SelectSeq(contents, LAMBDA c : c # Null)
    IN  IF Len(allContents) > 0
        THEN Arr([i \in 1..Len(allContents) |-> allContents[i].s])
        ELSE Null

\* lines 279-298 without the test for null: the content of the first match.
FirstContent_NoSkip(matches, fieldConfig) == ElementContent(Head(matches), fieldConfig)

\* lines 279-298: the loop over the matches stops at the first content that
\* is not null.
RECURSIVE FirstContent(_, _)
FirstContent(matches, fieldConfig) ==
    LET content == ElementContent(Head(matches), fieldConfig)
    IN  IF content # Null \/ Len(matches) = 1 THEN content
        ELSE FirstContent(Tail(matches), fieldConfig)

\* lines 215-308: the value of one field.
FieldValue(document, fieldConfig) ==
    IF ~fieldConfig.isObject THEN Null
    ELSE IF fieldConfig.selector = NoArg THEN Null
    ELSE IF SelectorThrows(fieldConfig.selector) THEN Null
    ELSE LET matches == querySelectorAll(document, fieldConfig.selector)
         IN  IF Len(matches) = 0 THEN Null
             ELSE IF fieldConfig.allMatches THEN AllContents(matches, fieldConfig)
             ELSE FirstContent(matches, fieldConfig)

\* lines 212-308 with the try block around the whole loop: an exception in
\* one field leaves every field without a value.
ExtractFields_AbortOnFailure(document, fields) ==
    [fieldName \in DOMAIN fields |->
        IF \E f \in DOMAIN fields :
              fields[f].isObject /\ fields[f].selector # NoArg
                  /\ SelectorThrows(fields[f].selector)
        THEN Null
        ELSE FieldValue(document, fields[fieldName])]

\* lines 212-308: one entry per field.
ExtractFields(document, fields) ==
    [fieldName \in DOMAIN fields |-> FieldValue(document, fields[fieldName])]

\* lines 203-314: cleaning, parsing, the fields, the JSON result.
ExtractResult(html, fields) ==
    [kind |-> "fields", keys |-> DOMAIN fields,
     value |-> ExtractFields(cleanElements(html), fields)]

----------------------------------------------------------------------------
(* Pages and field maps for extract *)

ExElements ==
    { Element("H1", TRUE, <<" ", "a", "1", " ">>, Null, Null, Null),
      Element("H1", TRUE, <<" ", " ">>, Null, Null, Null),
      Element("H1", FALSE, <<"a", "1", "1">>, Null, Null, Null),
      Element("H1", TRUE, <<"1", "a", "1">>, Null, Null, Null),
      Element("P", TRUE, <<>>, Null, Null, Null),
      Element("IMG", TRUE, <<>>, Str(<<"data:image", "a">>),
              Str(<<"https://x", "/", "a", " ", "1", "b">>), Null),
      Element("IMG", TRUE, <<>>, Str(<<" ", "/", "a", " ">>), Null, Null),
      Element("A", TRUE, <<"b">>, Null, Null, Str(<<"/", "a">>)) }

\* The pages of up to MaxDocLen elements.
ExPages == SeqsUpTo(ExElements, MaxDocLen)

\* A configuration that is a bare selector string, one without a selector,
\* one whose selector querySelectorAll rejects.
MalformedConfig ==
    [isObject |-> FALSE, selector |-> NoArg, attr |-> NoArg, regex |-> NoArg,
     regexFlags |-> NoArg, allMatches |-> FALSE]

NoSelectorConfig == FieldConfig(NoArg, NoArg, NoArg, NoArg, FALSE)

BadSelectorConfig == FieldConfig("[[", NoArg, NoArg, NoArg, FALSE)

\* regex and regexFlags as they are given together.
RegexArgs ==
    { <<NoArg, NoArg>>, <<"1+", NoArg>>, <<"1+", "g">>, <<"a(1+)", NoArg>>,
      <<"a(1+)", "g">>, <<"(a)|1", NoArg>>, <<"(", NoArg>> }

FieldConfigs ==
    { FieldConfig(".main", attr, r[1], r[2], all) :
        attr \in {NoArg, "src"}, r \in RegexArgs, all \in BOOLEAN }
    \cup { FieldConfig("img.main", "src", NoArg, NoArg, FALSE),
           MalformedConfig, NoSelectorConfig, BadSelectorConfig }

\* The configurations a second field of the request is drawn from.
SecondConfigs ==
    { MalformedConfig, BadSelectorConfig,
      FieldConfig(".main", NoArg, "(", NoArg, FALSE),
      FieldConfig(".main", NoArg, NoArg, NoArg, TRUE) }

\* The field maps: one field, or two.
FieldMaps ==
    [{"f1"} -> FieldConfigs]
    \cup { [n \in {"f1", "f2"} |-> IF n = "f1" THEN c1 ELSE c2] :
             c1 \in FieldConfigs, c2 \in SecondConfigs }

\* The page and the field maps extract meets in the handler-level
\* specification.
HandlerFieldMaps(keys) ==
    [keys -> {FieldConfig(".main", NoArg, NoArg, NoArg, FALSE),
              FieldConfig(".main", "src", NoArg, NoArg, TRUE)}]

HandlerElements ==
    << Element("H1", TRUE, <<" ", "a", "1", " ">>, Null, Null, Null),
       Element("IMG", TRUE, <<>>, Str(<<" ", "/", "a", " ">>), Null, Null) >>

NoExt == [html |-> <<>>, fields |-> <<>>]

----------------------------------------------------------------------------
(* getLinks and extract after validation *)

\* page.goto in getLinks (lines 104-122) and extract (lines 178-195): a
\* timeout goes on with the current DOM, any other error is thrown.
ToolGoto(nextPc) ==
    /\ \E out \in GotoOutcomes :
          /\ calls' = calls \o <<Call("setDefaultTimeout", "ok"), Call("goto", out)>>
          /\ IF out = "ok"
             THEN pc' = nextPc /\ UNCHANGED <<res, navErr>>
             ELSE /\ navErr' = out
                  /\ IF IsTimeoutErrorAnyCase(out)
                     THEN pc' = nextPc /\ res' = res
                     ELSE pc' = "cleanup" /\ res' = Exception(out)
    /\ UNCHANGED <<tool, args, snap, stabRet, proc, session, ext, options, requests, openPages>>

GlGoto == pc = "gl_goto" /\ ToolGoto("gl_content")

ExGoto == pc = "ex_goto" /\ ToolGoto("ex_content")

\* getLinks, lines 124-292: the 300 ms delay, page.content(), the harvest.
GlContent ==
    /\ pc = "gl_content"
    /\ \/ \E m \in PageErrors :
            /\ calls' = calls \o <<Call("waitForTimeout300", "ok"), Call("content", m)>>
            /\ res' = Exception(m)
            /\ session' = session
       \/ LET all == allLinks(session.page, OptionsSearch)
          IN  /\ calls' = calls \o <<Call("waitForTimeout300", "ok"), Call("content", "ok")>>
              /\ session' = [session EXCEPT !.all = all]
              /\ res' = LinksResult(all, OffsetOf(args))
    /\ pc' = "cleanup"
    /\ UNCHANGED <<tool, args, navErr, snap, stabRet, proc, ext, options, requests, openPages>>

\* extract, lines 197-314: the delay, page.content(), cleaning, one result
\* entry per requested field.
ExContent ==
    /\ pc = "ex_content"
    /\ \/ /\ calls' = calls \o <<Call("waitForTimeout300", "ok"), Call("content", "ok")>>
          /\ res' = ExtractResult(ext.html, ext.fields)
       \/ \E m \in PageErrors :
            /\ calls' = calls \o <<Call("waitForTimeout300", "ok"), Call("content", m)>>
            /\ res' = Exception(m)
    /\ pc' = "cleanup"
    /\ UNCHANGED <<tool, args, navErr, snap, stabRet, proc, session, ext, options, requests, openPages>>

----------------------------------------------------------------------------
(* Specification of one request *)

Init ==
    /\ tool \in Tools
    /\ args \in ArgsOf(tool)
    /\ pc = "start"
    /\ calls = <<>>
    /\ res = NoResult
    /\ navErr = NoArg
    /\ snap = NoSnap
    /\ stabRet = "none"
    /\ proc = NoProc
    /\ session \in IF tool = "get_links"
                   THEN {[NoSession EXCEPT !.page = p] : p \in HandlerPages}
                   ELSE {NoSession}
    /\ ext \in IF tool = "extract" /\ args.fields.isObject
               THEN {[html |-> HandlerElements, fields |-> f] :
                        f \in HandlerFieldMaps(args.fields.keys)}
               ELSE {NoExt}
    /\ options = NoOptions
    /\ requests = <<>>
    /\ openPages = <<>>

Next ==
    \/ Start
    \/ CreateBrowser
    \/ PpcGoto
    \/ PpcWaitNav
    \/ EnsurePageStability
    \/ SgpiLoop
    \/ SgpiContent
    \/ SgpiWait
    \/ PcClean
    \/ PcDismiss
    \/ PcFormat
    \/ GlGoto
    \/ GlContent
    \/ ExGoto
    \/ ExContent
    \/ Cleanup

Spec == Init /\ [][Next]_vars

\* The requests without a search pattern; fetch_url answers in markdown.
InitLive ==
    /\ Init
    /\ args.search = NoArg
    /\ tool = "fetch_url" => args.format = "markdown"

\* Every call to the browser, and every timer, returns or fails in the end:
\* a request that can take a step takes one.
SpecLive == InitLive /\ [][Next]_vars /\ WF_vars(Next)

----------------------------------------------------------------------------
(* Specification of a paging client of get_links on a static page *)

\* One call of getLinks at offset session.next; the client asks for the
\* next page while has_more is true.
LsFetch ==
    /\ pc = "ls_fetch"
    /\ LET all == allLinks(session.page, OptionsSearch)
           r == LinksResult(all, session.next)
       IN  /\ session' = [session EXCEPT !.all = all,
                                         !.pages = Append(@, r),
                                         !.next = IF r.has_more THEN @ + limit ELSE @]
           /\ res' = r
           /\ pc' = IF r.has_more THEN "ls_fetch" ELSE "ls_done"
    /\ UNCHANGED <<tool, args, calls, navErr, snap, stabRet, proc, ext, options, requests, openPages>>

LinksArgs(pages, offsets, searches) ==
    /\ tool = "get_links"
    /\ args \in [url : {GoodUrl}, search : searches, waitForNavigation : {FALSE},
                 format : {"html"}, fields : {NoFields}, offset : offsets,
                 timeout : {Undefined}, maxLength : {Undefined}]
    /\ session \in {[NoSession EXCEPT !.page = p, !.next = OffsetOf(args)] : p \in pages}

InitLinks ==
    /\ \/ LinksArgs(SmallPages, OffsetArgs, {NoArg, "item"})
       \/ LinksArgs(BigPages, OffsetArgs, {NoArg})
    /\ ext = NoExt
    /\ options = Options(tool, args)
    /\ pc = "ls_fetch"
    /\ calls = <<>>
    /\ res = NoResult
    /\ navErr = NoArg
    /\ snap = NoSnap
    /\ stabRet = "none"
    /\ proc = NoProc
    /\ requests = <<>>
    /\ openPages = <<>>

\* The client sends its latest request once more: the same arguments, the
\* same offset, the same static page.
LsRepeat ==
    /\ pc \in {"ls_fetch", "ls_done"}
    /\ session.pages # <<>>
    /\ session.again = <<>>
    /\ LET k == Len(session.pages)
           offset == OffsetOf(args) + (k - 1) * limit
           r == LinksResult(allLinks(session.page, OptionsSearch), offset)
       IN  /\ session' = [session EXCEPT !.again = <<k, r>>]
           /\ res' = r
    /\ UNCHANGED <<tool, args, pc, calls, navErr, snap, stabRet, proc, ext, options, requests, openPages>>

NextLinks == LsFetch \/ LsRepeat

SpecLinks == InitLinks /\ [][NextLinks]_vars

----------------------------------------------------------------------------
(* Specification of extract on a page that was fetched *)

\* extract from line 203 on, after page.content() returned ext.html.
ExFields ==
    /\ pc = "ex_fields"
    /\ res' = ExtractResult(ext.html, ext.fields)
    /\ pc' = "ex_done"
    /\ UNCHANGED <<tool, args, calls, navErr, snap, stabRet, proc, session, ext, options, requests, openPages>>

InitExtract ==
    /\ tool = "extract"
    /\ ext \in [html : ExPages, fields : FieldMaps]
    /\ args = [url |-> GoodUrl, search |-> NoArg, waitForNavigation |-> FALSE,
               format |-> "html",
               fields |-> [given |-> TRUE, isObject |-> TRUE, keys |-> DOMAIN ext.fields],
               offset |-> <<>>, timeout |-> Undefined, maxLength |-> Undefined]
    /\ options = Options(tool, args)
    /\ pc = "ex_fields"
    /\ calls = <<>>
    /\ res = NoResult
    /\ navErr = NoArg
    /\ snap = NoSnap
    /\ stabRet = "none"
    /\ proc = NoProc
    /\ session = NoSession
    /\ requests = <<>>
    /\ openPages = <<>>

NextExtract == ExFields

SpecExtract == InitExtract /\ [][NextExtract]_vars

----------------------------------------------------------------------------
(* The sanitizer on a document tree *)

\* An element: its tag, its own text ("" none, " " blank, "a" not blank) and
\* its child elements.
Node(tag, text, children) == [tag |-> tag, text |-> text, children |-> children]

\* An HTML string: the elements of its body; whether a whitespace text node
\* lies in the body; whether it holds a comment; what is around the body:
\* "page" for <html><head></head><body>..</body></html> as page.content()
\* returns it, "shell" for <html><body>..</body></html>, "none" for a
\* fragment.
Html(wrap, comment, ws, nodes) ==
    [wrap |-> wrap, comment |-> comment, ws |-> ws, nodes |-> nodes]

\* $el.text()?.trim() is not empty: the element or a descendant has text.
RECURSIVE HasText(_)
HasText(node) ==
    \/ node.text \notin {"", " "}
    \/ \E i \in DOMAIN node.children : HasText(node.children[i])

\* lines 74-76: $(tag).remove() for the unwanted tags, anywhere in the tree.
RECURSIVE RemoveTags(_, _)
RemoveTags(nodes, tags) ==
    LET kept == SelectSeq(nodes, LAMBDA n : n.tag \notin tags)
    IN  [i \in DOMAIN kept |->
            [kept[i] EXCEPT !.children = RemoveTags(@, tags)]]

\* lines 89-94 with the children visited before their parent.
RECURSIVE RemoveEmpty_ChildrenFirst(_, _)
RemoveEmpty_ChildrenFirst(nodes, tag) ==
    LET visited == [i \in DOMAIN nodes |->
                       [nodes[i] EXCEPT !.children = RemoveEmpty_ChildrenFirst(@, tag)]]
    IN  SelectSeq(visited, LAMBDA n :
            ~(n.tag = tag /\ ~HasText(n) /\ Len(n.children) = 0))

\* lines 89-94 for one tag: $(tag).each visits the elements in document
\* order, a parent before its children, and removes the one that has no
\* text and no child element at that moment.
RECURSIVE RemoveEmpty(_, _)
RemoveEmpty(nodes, tag) ==
    LET kept == SelectSeq(nodes, LAMBDA n :
                    ~(n.tag = tag /\ ~HasText(n) /\ Len(n.children) = 0))
    IN  [i \in DOMAIN kept |->
            [kept[i] EXCEPT !.children = RemoveEmpty(@, tag)]]

\* lines 88-95: the tags in the order div, span, p, section.
RemoveEmptyElements(nodes) ==
    RemoveEmpty(RemoveEmpty(RemoveEmpty(RemoveEmpty(nodes, "div"), "span"), "p"), "section")

\* lines 103-111: whitespace between tags is removed.
RECURSIVE NormalizeWhitespace(_)
NormalizeWhitespace(nodes) ==
    [i \in DOMAIN nodes |->
        [nodes[i] EXCEPT !.text = IF @ = " " THEN "" ELSE @,
                         !.children = NormalizeWhitespace(@)]]

\* cleanHtml, lines 62-125: the comments are cut out of `html` (line 65);
\* cheerio parses it; unwanted tags and empty elements are removed; the body
\* is serialised, or the whole document when the body serialises to the
\* empty string (line 100); whitespace is normalised.  `throws`: cheerio
\* raises an error, and the catch block returns `html`.
cleanHtmlTree(html, throws) ==
    LET stripped == [html EXCEPT !.comment = FALSE]
    IN  IF throws THEN stripped
        ELSE LET body == RemoveEmptyElements(RemoveTags(stripped.nodes, {"script"}))
             IN  IF body = <<>> /\ ~stripped.ws
                 THEN Html("shell", FALSE, FALSE, <<>>)
                 ELSE Html("none", FALSE, FALSE, NormalizeWhitespace(body))

\* The length of the string.
TagLen(tag) ==
    CASE tag = "div" -> 3 [] tag = "span" -> 4 [] tag = "p" -> 1
      [] tag = "section" -> 7 [] tag = "h1" -> 2 [] tag = "script" -> 6

RECURSIVE NodesSize(_)
NodesSize(nodes) ==
    IF nodes = <<>> THEN 0
    ELSE 2 * TagLen(Head(nodes).tag) + 5
            + (IF Head(nodes).text = "" THEN 0 ELSE 1)
            + NodesSize(Head(nodes).children) + NodesSize(Tail(nodes))

HtmlSize(html) ==
    (CASE html.wrap = "page" -> 39 [] html.wrap = "shell" -> 26 [] OTHER -> 0)
        + (IF html.comment THEN 7 ELSE 0) + (IF html.ws THEN 1 ELSE 0)
        + NodesSize(html.nodes)

\* The elements without children, and the containers with up to MaxChildren
\* of them.
LeafNodes ==
    { Node("div", "", <<>>), Node("span", " ", <<>>), Node("p", "", <<>>),
      Node("h1", "a", <<>>), Node("script", "", <<>>) }

TreeNodes ==
    LeafNodes \cup
        { Node(tag, "", children) :
            tag \in {"div", "span", "section"},
            children \in SeqsUpTo(LeafNodes, MaxChildren) \ {<<>>} }

\* What page.content() returns: a document with at most one element in its
\* body.
TreePages ==
    { Html("page", comment, ws, nodes) :
        comment \in BOOLEAN, ws \in BOOLEAN,
        nodes \in {<<>>} \cup {<<n>> : n \in TreeNodes} }

\* this.cleanHtml(contentToProcess, url), line 345.
CleanFirst ==
    /\ pc = "clean"
    /\ \E throws \in BOOLEAN :
          proc' = [proc EXCEPT !.content = cleanHtmlTree(proc.html, throws),
                               !.thrown = IF throws THEN FormatMsg ELSE NoArg]
    /\ pc' = "cleaned"
    /\ UNCHANGED <<tool, args, calls, res, navErr, snap, stabRet, session, ext, options, requests, openPages>>

\* cleanHtml on the string it returned.
CleanAgain ==
    /\ pc = "cleaned"
    /\ proc.thrown = NoArg
    /\ proc' = [proc EXCEPT !.html = proc.content,
                            !.content = cleanHtmlTree(proc.content, FALSE)]
    /\ pc' = "cleaned_again"
    /\ UNCHANGED <<tool, args, calls, res, navErr, snap, stabRet, session, ext, options, requests, openPages>>

InitClean ==
    /\ tool = "fetch_url"
    /\ args = [url |-> GoodUrl, search |-> NoArg, waitForNavigation |-> FALSE,
               format |-> "html", fields |-> NoFields, offset |-> <<>>,
               timeout |-> Undefined, maxLength |-> Undefined]
    /\ options = Options(tool, args)
    /\ proc \in {[NoProc EXCEPT !.caller = "main", !.html = h, !.content = h] :
                    h \in TreePages}
    /\ pc = "clean"
    /\ calls = <<>>
    /\ res = NoResult
    /\ navErr = NoArg
    /\ snap = NoSnap
    /\ stabRet = "none"
    /\ session = NoSession
    /\ ext = NoExt
    /\ requests = <<>>
    /\ openPages = <<>>

NextClean == CleanFirst \/ CleanAgain

SpecClean == InitClean /\ [][NextClean]_vars

----------------------------------------------------------------------------
(* Two concurrent requests of fetch_url *)

\* What a handler call keeps in its locals: args, the options and the
\* processor built from them, the page it created (0 for null), the html of
\* its snapshot, its result.  `served` is the document the site serves for
\* the url of the request.
Request(a, served) ==
    [args |-> a, served |-> served, pc |-> "start", options |-> NoOptions,
     page |-> 0, html |-> <<>>, res |-> NoResult]

\* A page of the browser: the document loaded in it, whether it was closed,
\* and the requests that called it.
NewPage == [doc |-> <<>>, closed |-> FALSE, users |-> {}]

\* browserService.createPage: a new page for every call.
createPage(ps) == Len(ps) + 1

\* `page` declared at module level instead of inside the handler: the page
\* created last is the page of every request.
PairCreate_ModuleLevelPage(r) ==
    /\ requests[r].pc = "start"
    /\ LET h == createPage(openPages)
       IN  /\ openPages' = Append(openPages, NewPage)
           /\ requests' = [q \in DOMAIN requests |->
                              IF q = r
                              THEN [requests[q] EXCEPT
                                      !.options = Options("fetch_url", requests[r].args),
                                      !.page = h,
                                      !.pc = "ppc_goto"]
                              ELSE [requests[q] EXCEPT
                                      !.page = IF @ = 0 THEN 0 ELSE h]]
    /\ calls' = Append(calls, Call("createPage", r))

\* fetchUrl lines 95-130: the options, a BrowserService and a
\* WebContentProcessor of its own, then browser, context and page.
PairCreate(r) ==
    /\ requests[r].pc = "start"
    /\ LET h == createPage(openPages)
       IN  /\ openPages' = Append(openPages, NewPage)
           /\ requests' = [requests EXCEPT
                              ![r].options = Options("fetch_url", requests[r].args),
                              ![r].page = h,
                              ![r].pc = "ppc_goto"]
    /\ calls' = Append(calls, Call("createPage", r))

\* A page operation of request r raised msg: processPageContent returns the
\* failure (lines 239-249).
PairFailed(r, msg) ==
    requests' = [requests EXCEPT
                    ![r].res = FailureResult(requests[r].args.url, msg),
                    ![r].pc = "cleanup"]

\* lines 134-138: page.goto loads the document of the url in the page.
PairGoto(r) ==
    /\ requests[r].pc = "ppc_goto"
    /\ LET h == requests[r].page
       IN  IF openPages[h].closed
           THEN PairFailed(r, ClosedMsg) /\ openPages' = [openPages EXCEPT ![h].users = @ \cup {r}]
           ELSE /\ openPages' = [openPages EXCEPT ![h].doc = requests[r].served,
                                                 ![h].users = @ \cup {r}]
                /\ requests' = [requests EXCEPT ![r].pc = "sgpi_content"]
    /\ calls' = Append(calls, Call("goto", r))

\* lines 211-224: the snapshot of the page, and the test for empty html.
PairContent(r) ==
    /\ requests[r].pc = "sgpi_content"
    /\ LET h == requests[r].page
           html == openPages[h].doc
       IN  IF openPages[h].closed
           THEN PairFailed(r, ClosedMsg)
           ELSE IF EmptyContent(html)
           THEN PairFailed(r, EmptyContentMsg)
           ELSE requests' = [requests EXCEPT ![r].html = html, ![r].pc = "pc_clean"]
    /\ calls' = Append(calls, Call("content", r))
    /\ openPages' = [openPages EXCEPT ![requests[r].page].users = @ \cup {r}]

\* processContent on html, with `fresh` what the page holds when the result
\* of cleaning is too small (lines 340-430).
processContent(html, fresh, format, maxLength) ==
    LET cleaned == cleanHtml(html)
        contentToProcess ==
            IF CharLen(Trim(cleaned)) < MIN_CONTENT_LENGTH /\ fresh # <<>>
            THEN cleanHtml(fresh)
            ELSE cleaned
    IN  Truncate(IF format = "markdown"
                 THEN ToMarkdown(html, contentToProcess, "")
                 ELSE contentToProcess,
                 maxLength)

\* lines 226-238: processContent with the page of the request, which it
\* reads again after dismissing modals.
PairProcess(r) ==
    /\ requests[r].pc = "pc_clean"
    /\ LET q == requests[r]
           h == q.page
       IN  IF openPages[h].closed /\ CharLen(Trim(cleanHtml(q.html))) < MIN_CONTENT_LENGTH
           THEN PairFailed(r, ClosedMsg)
           ELSE requests' = [requests EXCEPT
                    ![r].res = SuccessResult(processContent(q.html, openPages[h].doc,
                                                 q.args.format, q.options.maxLength)),
                    ![r].pc = "cleanup"]
    /\ calls' = Append(calls, Call("processContent", r))
    /\ openPages' = [openPages EXCEPT ![requests[r].page].users = @ \cup {r}]

\* fetchUrl lines 140-142: cleanup closes the page and the browser of the
\* request.
PairCleanup(r) ==
    /\ requests[r].pc = "cleanup"
    /\ openPages' = [openPages EXCEPT ![requests[r].page].closed = TRUE,
                                      ![requests[r].page].users = @ \cup {r}]
    /\ requests' = [requests EXCEPT ![r].pc = "done"]
    /\ calls' = Append(calls, Call("cleanup", r))

\* The arguments of the two requests, and the documents served to them.
PairArgs ==
    [url : {GoodUrl}, search : {NoArg}, waitForNavigation : {FALSE},
     format : {"html", "markdown"}, fields : {NoFields}, offset : {<<>>},
     timeout : {Undefined}, maxLength : {Undefined, Num(1)}]

PairServed == { <<>>, <<"modal", "short">>, <<"ws", "text", "script", "ws">> }

InitPair ==
    /\ requests \in [1..2 -> {Request(a, d) : a \in PairArgs, d \in PairServed}]
    /\ openPages = <<>>
    /\ calls = <<>>
    /\ tool = "fetch_url"
    /\ args = [url |-> GoodUrl, search |-> NoArg, waitForNavigation |-> FALSE,
               format |-> "html", fields |-> NoFields, offset |-> <<>>,
               timeout |-> Undefined, maxLength |-> Undefined]
    /\ options = NoOptions
    /\ pc = "start"
    /\ res = NoResult
    /\ navErr = NoArg
    /\ snap = NoSnap
    /\ stabRet = "none"
    /\ proc = NoProc
    /\ session = NoSession
    /\ ext = NoExt

\* Either request takes its next step: the handlers interleave at every
\* await.
NextPair ==
    /\ \E r \in DOMAIN requests :
          \/ PairCreate(r)
          \/ PairGoto(r)
          \/ PairContent(r)
          \/ PairProcess(r)
          \/ PairCleanup(r)
    /\ UNCHANGED <<tool, args, pc, res, navErr, snap, stabRet, proc, session, ext, options>>

SpecPair == InitPair /\ [][NextPair]_vars

----------------------------------------------------------------------------
(* Specification of the options and of the last steps of processContent *)

\* content.split('\n')
RECURSIVE SplitLines(_)
SplitLines(content) ==
    LET breaks == {i \in DOMAIN content : content[i] = "\n"}
    IN  IF breaks = {} THEN <<content>>
        ELSE LET i == CHOOSE j \in breaks : \A k \in breaks : j <= k
             IN  <<SubSeq(content, 1, i - 1)>>
                     \o SplitLines(SubSeq(content, i + 1, Len(content)))

\* filteredLines.join('\n')
RECURSIVE JoinLines(_)
JoinLines(lines) ==
    IF lines = <<>> THEN <<>>
    ELSE IF Len(lines) = 1 THEN lines[1]
         ELSE lines[1] \o <<"\n">> \o JoinLines(Tail(lines))

\* What a regex with the i flag compares: the letters without their case.
FoldCase(line) == [i \in DOMAIN line |-> IF line[i] = "A" THEN "a" ELSE line[i]]

\* lines 399-415 with a regex without the i flag.
SearchFilter_CaseSensitive(content, search) ==
    JoinLines(SelectSeq(SplitLines(content),
                        LAMBDA line : \E i \in DOMAIN line : MatchesAt(search, line, i)))

\* lines 399-415 on the text turndown returned: the lines that
\* new RegExp(search, 'i') matches.
SearchFilter(content, search) ==
    JoinLines(SelectSeq(SplitLines(content),
                        LAMBDA line : \E i \in DOMAIN line :
                                         MatchesAt(search, FoldCase(line), i)))

\* lines 399-429 with the cut before the search filter.
ProcessText_TruncateFirst(content, format, search, maxLength) ==
    IF format = "markdown" /\ search # ""
    THEN SearchFilter(Truncate(content, maxLength), search)
    ELSE Truncate(content, maxLength)

\* lines 399-429: the search filter on markdown, then the cut, on the text
\* after conversion (markdown) or cleaning (html).
ProcessText(content, format, search, maxLength) ==
    Truncate(IF format = "markdown" /\ search # ""
             THEN SearchFilter(content, search)
             ELSE content,
             maxLength)

\* The timeout and maxLength arguments: absent, negative, zero, positive, a
\* numeral, a string that is no numeral.
NumberArgs ==
    {Undefined, Num(-1), Num(0), Num(2), Str(<<" ", "1">>), Str(<<"a">>)}

\* The texts processContent formats.
Texts == SeqsUpTo({"A", "1", "\n"}, MaxTextLen)

\* The head of the handler: validation, then the options (fetchUrl lines
\* 74-110, getLinks lines 51-89).
OptBuild ==
    /\ pc = "opt_start"
    /\ LET v == Validate(tool, args)
       IN  IF v = "ok"
           THEN /\ options' = Options(tool, args)
                /\ pc' = IF tool = "fetch_url" THEN "opt_format" ELSE "opt_done"
                /\ res' = res
           ELSE /\ options' = options
                /\ pc' = "opt_done"
                /\ res' = [kind |-> "rejected", error |-> v]
    /\ UNCHANGED <<tool, args, calls, navErr, snap, stabRet, proc, session, ext,
                   requests, openPages>>

\* processContent from line 399 on, with proc.content the converted text.
OptProcess ==
    /\ pc = "opt_format"
    /\ res' = SuccessResult(ProcessText(proc.content, args.format, OptionsSearch,
                                        options.maxLength))
    /\ pc' = "opt_done"
    /\ UNCHANGED <<tool, args, calls, navErr, snap, stabRet, proc, session, ext, options, requests, openPages>>

InitOptions ==
    /\ tool \in Tools
    /\ args \in [url : {GoodUrl}, search : {NoArg, "1+", "(a)|1", "("},
                 waitForNavigation : {FALSE},
                 format : IF tool = "fetch_url" THEN {"html", "markdown"} ELSE {"html"},
                 fields : IF tool = "extract"
                          THEN {[given |-> TRUE, isObject |-> TRUE, keys |-> {"title"}]}
                          ELSE {NoFields},
                 offset : {<<>>}, timeout : NumberArgs, maxLength : NumberArgs]
    /\ proc \in {[NoProc EXCEPT !.content = t] :
                    t \in IF tool = "fetch_url" THEN Texts ELSE {<<>>}}
    /\ options = NoOptions
    /\ pc = "opt_start"
    /\ calls = <<>>
    /\ res = NoResult
    /\ navErr = NoArg
    /\ snap = NoSnap
    /\ stabRet = "none"
    /\ session = NoSession
    /\ ext = NoExt
    /\ requests = <<>>
    /\ openPages = <<>>

NextOptions == OptBuild \/ OptProcess

SpecOptions == InitOptions /\ [][NextOptions]_vars

----------------------------------------------------------------------------
(* Claims about the resilient snapshot and the content pipeline *)

InSnapshot == pc \in {"sgpi_loop", "sgpi_content", "sgpi_wait"} \/ (pc = "stab" /\ stabRet = "sgpi")

EndsWith(c, tail) ==
    /\ Len(c) >= Len(tail)
    /\ SubSeq(c, Len(c) - Len(tail) + 1, Len(c)) = tail

\* The calls that precede a further attempt: one second of sleep, then the
\* readiness wait (with its settle delay when readiness was reached).
WaitedAndStabilised ==
    \/ EndsWith(calls, <<Call("setTimeout1000", "ok"), Call("waitForFunction", "ok"),
                         Call("waitForTimeout500", "ok")>>)
    \/ EndsWith(calls, <<Call("setTimeout1000", "ok"), Call("waitForFunction", ReadyMsg)>>)

\* C1: safelyGetPageInfo makes at most 3 attempts; an attempt after the
\* first is started only after the attempt before it failed with an
\* "execution context was destroyed" error, and only after the sleep and
\* the readiness wait were run again; a failure of any other class is the
\* last attempt and is the error the snapshot ends with.
C1_BoundedRetryOnContextLoss ==
    /\ snap.attempt <= 3
    /\ \A k \in 2..snap.attempt :
          Len(snap.errors) >= k - 1 /\ snap.errors[k - 1] = CtxMsg
    /\ \A i \in 1..Len(snap.errors) :
          snap.errors[i] # CtxMsg =>
              /\ i = Len(snap.errors)
              /\ snap.attempt = i
              /\ snap.thrown = snap.errors[i]
              /\ ~InSnapshot
    /\ (pc = "sgpi_loop" /\ snap.attempt >= 1) => WaitedAndStabilised

\* The third attempt of a snapshot succeeded after two lost contexts.
C1_Witness ==
    /\ snap.attempt = 3
    /\ snap.errors = <<CtxMsg, CtxMsg>>
    /\ snap.returned

\* C2: when all 3 attempts fail because the execution context was
\* invalidated, the snapshot returns the last known title and HTML and raises
\* no error.
C2_ExhaustedRetriesReturn ==
    (Len(snap.errors) = 3 /\ \A i \in 1..3 : snap.errors[i] = CtxMsg)
        => (snap.thrown = NoArg /\ (~InSnapshot => snap.returned))

\* The HTML of the late snapshot (<<>> when none was returned).
LateHtml == IF proc.caller = "late" THEN proc.html
            ELSE IF snap.caller = "late" /\ snap.returned THEN snap.html ELSE <<>>

NonBlank(h) == \E i \in 1..Len(h) : h[i] # "ws"

FetchEnded == tool = "fetch_url" /\ pc = "done" /\ res.kind = "result"

\* C3 as stated: after a navigation timeout the request fails, carrying the
\* timeout, only when the late snapshot is empty; a non-empty late snapshot
\* gives success.
C3_FailsOnlyOnEmptyLateSnapshot ==
    (FetchEnded /\ navErr = TimeoutMsg) => (res.success <=> NonBlank(LateHtml))

\* C3 amended: after a navigation timeout the late snapshot is attempted;
\* the request succeeds exactly when that snapshot is returned non-blank and
\* formatting completes without raising, and otherwise (blank snapshot, or
\* the snapshot or the formatting raised) fails carrying the timeout; a
\* navigation failure of another class takes no snapshot at all.
C3_LateExtraction ==
    (FetchEnded /\ navErr # NoArg) =>
        IF navErr = TimeoutMsg
        THEN /\ \E i \in 1..Len(calls) : calls[i][1] = "title"
             /\ res.success <=> (NonBlank(LateHtml) /\ proc.thrown = NoArg)
             /\ ~res.success => res.error = TimeoutMsg
        ELSE /\ \A i \in 1..Len(calls) : calls[i][1] \notin {"title", "content"}
             /\ ~res.success
             /\ res.error = navErr

\* A request that succeeded from the late snapshot after a navigation timeout.
C3_Witness == FetchEnded /\ navErr = TimeoutMsg /\ res.success /\ proc.caller = "late"

\* The snapshot processPageContent settled on (main or late path).
SettledHtml == IF proc.caller # "none" THEN proc.html ELSE snap.html

SnapshotSettled ==
    \/ proc.caller # "none"
    \/ (snap.caller \in {"main", "late"} /\ snap.returned)

\* C4: whenever the settled HTML snapshot is empty or whitespace-only, the
\* request ends in a terminal failure, never in a success result (stated
\* here for the normal path, after a navigation that succeeded).
C4_BlankSnapshotNeverSucceeds ==
    (FetchEnded /\ navErr = NoArg /\ SnapshotSettled /\ ~NonBlank(SettledHtml))
        => ~res.success

\* C5 as stated: every terminal failure of a request, whatever the tool, is
\* returned as a payload and not raised as an exception.
C5_NoFailureIsRaised ==
    (pc = "done" /\ \E i \in 1..Len(calls) : calls[i][1] = "goto")
        => res.kind # "exception"

\* C5 amended: in content mode, once processPageContent has begun, every
\* failure is returned as a FetchResult with success = false whose content
\* carries the request URL and the cause, the cause being its error; a
\* result with success = true carries no error; nothing is raised.
C5_ContentModeFailuresAreResults ==
    (tool = "fetch_url" /\ pc \in {"cleanup", "done"}
        /\ \E i \in 1..Len(calls) : calls[i][1] = "goto")
    => /\ res.kind = "result"
       /\ IF res.success
          THEN res.error = NoArg
          ELSE /\ res.error \in NavErrors \cup PageErrors \cup
                                {InvalidUrlMsg, FormatMsg, EmptyContentMsg}
               /\ res.content.url = OrEmpty(args.url)
               /\ res.content.cause = res.error

\* A snapshot failure returned as a failure result.
C5_Witness ==
    /\ tool = "fetch_url" /\ pc = "done"
    /\ res.kind = "result" /\ ~res.success /\ res.error = ClosedMsg

\* C6: after a successful navigation the snapshot step is always reached,
\* also when the extra-navigation wait timed out and when the readiness
\* wait failed.
C6_SnapshotAlwaysReached ==
    (tool = "fetch_url" /\ pc \in {"cleanup", "done"}
        /\ \E i \in 1..Len(calls) : calls[i] = Call("goto", "ok"))
    => \E i \in 1..Len(calls) : calls[i][1] = "title"

\* The extra-navigation wait timed out, the readiness wait failed, and the
\* snapshot was taken all the same.
C6_Witness ==
    /\ tool = "fetch_url" /\ pc = "done"
    /\ \E i \in 1..(Len(calls) - 2) :
          /\ calls[i] = Call("waitForNavigation", "Navigation timeout")
          /\ calls[i + 1] = Call("waitForFunction", ReadyMsg)
          /\ calls[i + 2][1] = "title"

\* The request is invalid: url missing or empty, extract without a field
\* map or with an empty one, a search pattern that does not compile.
InvalidRequest ==
    \/ args.url \in {NoArg, ""}
    \/ tool = "extract" /\ (~args.fields.given \/ (args.fields.isObject /\ args.fields.keys = {}))
    \/ tool \in {"fetch_url", "get_links"} /\ args.search \in {"(", " ( "}

\* C7: an invalid request is rejected before any call to the browser
\* collaborator and is not retried.
C7_InvalidRequestRejectedFirst ==
    InvalidRequest =>
        /\ calls = <<>>
        /\ pc \in {"start", "done"}
        /\ pc = "done" => res.kind = "rejected"

\* A fetch_url request rejected for its search pattern before any browser call.
C7_Witness ==
    /\ pc = "done" /\ res.kind = "rejected" /\ calls = <<>>
    /\ tool = "fetch_url" /\ args.url = GoodUrl /\ args.search = " ( "

----------------------------------------------------------------------------
(* Claims about the pages of get_links *)

\* The offset of the k-th call of the paging client.
PageOffset(k) == OffsetOf(args) + (k - 1) * limit

\* The links of `all` at positions offset .. offset + limit - 1 (0-based).
Window(all, offset) ==
    LET last == IF offset + limit < Len(all) THEN offset + limit ELSE Len(all)
    IN  IF offset >= last THEN <<>> ELSE [i \in 1..(last - offset) |-> all[offset + i]]

\* C8: every get_links result has count equal to the number of links of its
\* page, the page has at most 100 links, has_more is true exactly when
\* offset + 100 is less than the total filtered count, and for an offset
\* that is a position (0 or more) the page is the contiguous run of the
\* full filtered list that starts at that position.
C8_PageIsContiguousSlice ==
    \A k \in 1..Len(session.pages) :
        LET r == session.pages[k]
            offset == PageOffset(k)
        IN  /\ r.count = Len(r.links)
            /\ Len(r.links) <= 100
            /\ r.has_more <=> (offset + 100 < Len(session.all))
            /\ offset >= 0 => r.links = Window(session.all, offset)

\* 150 qualifying links: 100 links and has_more at offset 0, then 50 links
\* and no more at offset 100.
C8_Witness ==
    /\ OffsetOf(args) = 0
    /\ Len(session.all) = 150
    /\ Len(session.pages) = 2
    /\ session.pages[1].count = 100 /\ session.pages[1].has_more
    /\ session.pages[2].count = 50 /\ ~session.pages[2].has_more

RECURSIVE Flatten(_)
Flatten(pages) ==
    IF pages = <<>> THEN <<>> ELSE Head(pages).links \o Flatten(Tail(pages))

Range(f) == {f[i] : i \in DOMAIN f}

NoDuplicates(f) == \A i, j \in DOMAIN f : f[i] = f[j] => i = j

\* C9: on a static page, the pages requested from offset 0 until has_more
\* is false are pairwise disjoint, hold no link twice and, laid end to
\* end, are the full filtered list in its own order.
C9_PagesPartitionTheList ==
    (pc = "ls_done" /\ OffsetOf(args) = 0) =>
        /\ Flatten(session.pages) = session.all
        /\ \A k \in 1..Len(session.pages) : NoDuplicates(session.pages[k].links)
        /\ \A j, k \in 1..Len(session.pages) :
              j < k => Range(session.pages[j].links) \cap Range(session.pages[k].links) = {}

\* A list that took three pages to deliver, the last one not full.
C9_Witness ==
    /\ pc = "ls_done" /\ OffsetOf(args) = 0
    /\ Len(session.pages) = 3
    /\ session.pages[3].count \in 1..(limit - 1)

Occurrences(f, x) == Cardinality({i \in DOMAIN f : f[i] = x})

\* The absolute URLs the raw hrefs of the page resolve to.
ResolvedUrls == {toAbsolute(h) : h \in Range(rawLinks(session.page))}

\* C10: the full filtered list never holds the same absolute URL twice;
\* the raw hrefs that resolve to one absolute URL give one record when the
\* URL qualifies (not an asset, matching the search pattern) and none
\* otherwise, and the list holds nothing else.
C10_NoDuplicateAbsoluteUrl ==
    Len(session.pages) >= 1 =>
        /\ NoDuplicates(session.all)
        /\ Range(session.all) \subseteq ResolvedUrls
        /\ \A u \in ResolvedUrls :
              Occurrences(session.all, u) =
                  IF ~isAsset(u) /\ (OptionsSearch = "" \/ UrlRegexTest(OptionsSearch, u))
                  THEN 1 ELSE 0

\* '/s0' and 'https://host/s0' on one page collapse to one record.
C10_Witness ==
    /\ Len(session.pages) >= 1
    /\ Len(session.page) = 2
    /\ session.page[1].href = <<Tok.slash, Seg(0)>>
    /\ session.page[2].href = <<Tok.https, Tok.host, Tok.slash, Seg(0)>>
    /\ session.all = <<<<Tok.https, Tok.host, Tok.slash, Seg(0)>>>>

----------------------------------------------------------------------------
(* Claims about the links get_links returns *)

\* The URL up to its query string and fragment.
PathPart(u) ==
    LET stops == {i \in 1..Len(u) : u[i] \in {Tok.q, Tok.hash}}
    IN  IF stops = {} THEN u
        ELSE SubSeq(u, 1, (CHOOSE i \in stops : \A j \in stops : i <= j) - 1)

\* The path of the URL ends in .css, .pdf or .png, in either case.
EndsInAssetExtension(u) ==
    /\ PathPart(u) # <<>>
    /\ PathPart(u)[Len(PathPart(u))] \in {Tok.css, Tok.pdf, Tok.png, Tok.pngUpper}

\* C11: no link of a returned page has a path (query string and fragment
\* removed) that ends in an asset extension, whatever element it came from.
C11_NoAssetLinkReturned ==
    \A k \in 1..Len(session.pages) :
        \A i \in 1..Len(session.pages[k].links) :
            ~EndsInAssetExtension(session.pages[k].links[i])

\* A page with an asset whose extension is followed by a query string or a
\* fragment, and a link: the link alone was returned.
C11_Witness ==
    /\ Len(session.pages) >= 1
    /\ Len(session.page) = 2
    /\ EndsInAssetExtension(session.page[1].href)
    /\ Len(PathPart(session.page[1].href)) < Len(session.page[1].href)
    /\ session.page[2].href = <<Tok.slash, Seg(0)>>
    /\ session.pages[1].links = <<BaseOrigin \o <<Tok.slash, Seg(0)>>>>

\* The list is in strictly ascending code-unit order of its URLs.
Ascending(f) == \A i \in 1..(Len(f) - 1) : UrlLess(f[i], f[i + 1])

\* C12: every page get_links returns is in ascending URL order, the pages
\* of consecutive requests laid end to end are in ascending URL order, and
\* a request that is repeated on the static page returns the same page.
C12_SortedPages ==
    /\ \A k \in 1..Len(session.pages) : Ascending(session.pages[k].links)
    /\ Ascending(Flatten(session.pages))
    /\ session.again # <<>> => session.again[2] = session.pages[session.again[1]]

\* Three pages of a list whose links the page gave in descending order, the
\* second request having been repeated.
C12_Witness ==
    /\ pc = "ls_done"
    /\ Len(session.pages) = 3
    /\ session.pages[3].count >= 1
    /\ session.again # <<>> /\ session.again[1] = 2
    /\ UrlLess(toAbsolute(session.page[2].href), toAbsolute(session.page[1].href))


----------------------------------------------------------------------------
(* Claims about the field extractor *)

\* The document the selectors are resolved against: the page after cleaning.
ExDocument == cleanElements(ext.html)

\* A configuration whose field fails: no object, no selector, a selector
\* that querySelectorAll rejects, a regex that does not compile.
FailingConfig(c) ==
    \/ ~c.isObject
    \/ c.selector = NoArg
    \/ SelectorThrows(c.selector)
    \/ c.regex # NoArg /\ ~RegexCompiles(c.regex)

\* The request without the field g.
WithoutField(fields, g) == [f \in DOMAIN fields \ {g} |-> fields[f]]

\* C13: extract answers with a result that is no error and has exactly one
\* entry per requested field; a field whose configuration is malformed,
\* whose selector fails or whose regex is invalid has the value null, and
\* every other field has the value it has in the request without that field.
C13_FieldsAreIndependent ==
    pc = "ex_done" =>
        /\ res.kind = "fields"
        /\ DOMAIN res.value = DOMAIN ext.fields
        /\ \A g \in DOMAIN ext.fields :
              FailingConfig(ext.fields[g]) =>
                  /\ res.value[g] = Null
                  /\ \A f \in DOMAIN ext.fields \ {g} :
                        res.value[f] =
                            ExtractResult(ext.html, WithoutField(ext.fields, g)).value[f]

\* A request of two fields: the selector of f2 is rejected, f1 has a value.
C13_Witness ==
    /\ pc = "ex_done"
    /\ DOMAIN ext.fields = {"f1", "f2"}
    /\ ext.fields["f2"] = BadSelectorConfig
    /\ res.value["f2"] = Null
    /\ res.value["f1"] # Null

\* The elements the selector of c matches, in document order, and what is
\* extracted from each.
Matched(c) == querySelectorAll(ExDocument, c.selector)

Extractions(c) == [i \in 1..Len(Matched(c)) |-> ElementContent(Matched(c)[i], c)]

\* The selector of c can be resolved.
Resolvable(c) == c.isObject /\ c.selector # NoArg /\ ~SelectorThrows(c.selector)

\* The document with the element u put after its first k elements.
InsertAt(document, k, u) ==
    SubSeq(document, 1, k) \o <<u>> \o SubSeq(document, k + 1, Len(document))

\* C14: for a field with allMatches false the value, when it is not null, is
\* the extraction of the first matched element in document order whose
\* extraction is not null; it is null exactly when no element matches or
\* every matched element extracts to null; elements the selector does not
\* match do not change it, wherever they are.
C14_FirstNonNullMatch ==
    pc = "ex_done" =>
        \A f \in DOMAIN ext.fields :
            LET c == ext.fields[f]
                v == res.value[f]
            IN  Resolvable(c) /\ ~c.allMatches =>
                    LET e == Extractions(c)
                    IN  /\ v # Null =>
                              \E i \in DOMAIN e :
                                  /\ e[i] # Null /\ v = e[i]
                                  /\ \A j \in 1..(i - 1) : e[j] = Null
                        /\ v = Null <=> \A i \in DOMAIN e : e[i] = Null
                        /\ v = FieldValue(Matched(c), c)
                        /\ \A u \in ExElements, k \in 0..Len(ExDocument) :
                              /\ cleanElements(<<u>>) = <<u>>
                              /\ querySelectorAll(<<u>>, c.selector) = <<>>
                              => FieldValue(InsertAt(ExDocument, k, u), c) = v

\* The first matched element extracts to null, the second does not, and the
\* field has the value of the second.
C14_Witness ==
    /\ pc = "ex_done"
    /\ \E f \in DOMAIN ext.fields :
          LET c == ext.fields[f]
          IN  /\ Resolvable(c) /\ ~c.allMatches
              /\ Len(Matched(c)) = 2
              /\ Extractions(c)[1] = Null
              /\ Extractions(c)[2] # Null
              /\ res.value[f] = Extractions(c)[2]

\* C15: for a field with allMatches true the value is the sequence, in
\* document order, of the extractions of the matched elements that are not
\* null; when there is none the value is null, never an empty array.
C15_AllNonNullMatches ==
    pc = "ex_done" =>
        \A f \in DOMAIN ext.fields :
            LET c == ext.fields[f]
                v == res.value[f]
            IN  Resolvable(c) /\ c.allMatches =>
                    LET nonNull == SelectSeq(Extractions(c), LAMBDA x : x # Null)
                    IN  /\ v # Arr(<<>>)
                        /\ IF nonNull = <<>> THEN v = Null
                           ELSE /\ v.kind = "array"
                                /\ Len(v.items) = Len(nonNull)
                                /\ \A i \in DOMAIN nonNull : v.items[i] = nonNull[i].s

\* Two fields with allMatches true on one page: two elements match, both
\* with a value; elements match but none has a value, and the field is null.
C15_Witness ==
    /\ pc = "ex_done"
    /\ \E f \in DOMAIN ext.fields :
          LET c == ext.fields[f]
          IN  /\ Resolvable(c) /\ c.allMatches
              /\ Len(Matched(c)) = 2
              /\ res.value[f].kind = "array" /\ Len(res.value[f].items) = 2
    /\ \E f \in DOMAIN ext.fields :
          LET c == ext.fields[f]
          IN  /\ Resolvable(c) /\ c.allMatches
              /\ Len(Matched(c)) = 2
              /\ res.value[f] = Null

\* The text of the element e that the regex of c is applied to: the trimmed
\* attribute when c names one, else the trimmed text; <<>> when there is none.
ExtractedText(e, c) ==
    IF c.attr = NoArg THEN TrimChars(e.text)
    ELSE IF e.attrs[c.attr] = Null THEN <<>>
         ELSE TrimChars(e.attrs[c.attr].s)

\* C16: when a field has a regex, the value extracted from a matched element
\* whose text the pattern matches is the first capture group of the first
\* match if the pattern has a capture group (one that took part in the
\* match), else the full match; without a match it is null; a pattern that
\* does not compile gives the field the value null.
C16_RegexGroupOrFullMatch ==
    pc = "ex_done" =>
        \A f \in DOMAIN ext.fields :
            LET c == ext.fields[f]
            IN  Resolvable(c) /\ c.regex # NoArg =>
                    IF ~RegexCompiles(c.regex) THEN res.value[f] = Null
                    ELSE \A i \in DOMAIN Matched(c) :
                            LET text == ExtractedText(Matched(c)[i], c)
                                all == MatchAll(c.regex, text, 1)
                            IN  text # <<>> =>
                                    Extractions(c)[i] =
                                        IF all = <<>> THEN Null
                                        ELSE IF Len(all[1]) >= 2 /\ all[1][2] # Undefined
                                             THEN all[1][2]
                                             ELSE all[1][1]

\* srcset.split(",")[0].trim().split(" ")[0]: the first URL of a srcset.
FirstSrcsetUrl(srcset) ==
    LET commas == {i \in DOMAIN srcset : srcset[i] = ","}
        first == TrimChars(SubSeq(srcset, 1,
                     IF commas = {} THEN Len(srcset)
                     ELSE (CHOOSE i \in commas : \A j \in commas : i <= j) - 1))
        spaces == {i \in DOMAIN first : first[i] = " "}
    IN  SubSeq(first, 1,
               IF spaces = {} THEN Len(first)
               ELSE (CHOOSE i \in spaces : \A j \in spaces : i <= j) - 1)

\* The src of the image is a data:image URI.
HasDataUriSrc(e) ==
    e.tag = "IMG" /\ e.attrs.src # Null /\ e.attrs.src.s # <<>>
        /\ Head(e.attrs.src.s) = "data:image"

\* C17: the field {selector: "img.main", attr: "src"} on a page whose
\* matching image has a data URI as src and a srcset has as value the first
\* URL of the srcset.
C17_DataUriImageYieldsSrcset ==
    pc = "ex_done" =>
        \A f \in DOMAIN ext.fields :
            LET images == querySelectorAll(ext.html, "img.main")
            IN  /\ ext.fields[f] = FieldConfig("img.main", "src", NoArg, NoArg, FALSE)
                /\ Len(images) = 1
                /\ HasDataUriSrc(images[1])
                /\ images[1].attrs.srcset # Null
                => res.value[f] = Str(FirstSrcsetUrl(images[1].attrs.srcset.s))

\* new URL(src, baseUrl).toString() for the URLs of the model: an absolute
\* URL is kept, a path is put after the origin of the page.
ResolveUrl(src) ==
    LET url == TrimChars(src)
    IN  IF Head(url) = "https://x" THEN url ELSE <<"https://host">> \o url

\* The value the auto-detecting extractElementContent gives for an element:
\* the src of an image (the first URL of its srcset when the src is a data
\* URI), the href of a link, the src of a media element, each resolved, else
\* the trimmed text.
AutoDetected(e) ==
    LET attribute(name) == IF e.attrs[name] = Null THEN <<>> ELSE e.attrs[name].s
        src == IF e.tag = "IMG" /\ HasDataUriSrc(e)
               THEN FirstSrcsetUrl(attribute("srcset"))
               ELSE attribute("src")
        url == IF e.tag = "A" THEN attribute("href") ELSE src
    IN  IF e.tag \in {"IMG", "A", "VIDEO", "AUDIO", "SOURCE"}
        THEN IF url = <<>> THEN Null ELSE Str(ResolveUrl(url))
        ELSE IF TrimChars(e.text) = <<>> THEN Null ELSE Str(TrimChars(e.text))

\* C18: without attr the value of a field depends on the kind of the
\* element: an IMG gives its src (the first srcset URL for a data URI, else
\* null), an A its href, VIDEO, AUDIO and SOURCE their src, each as an
\* absolute URL, every other element its trimmed text; with attr the value
\* is the named attribute, trimmed and not resolved.
C18_AutoDetectByElementKind ==
    pc = "ex_done" =>
        \A f \in DOMAIN ext.fields :
            LET c == ext.fields[f]
            IN  Resolvable(c) /\ c.regex = NoArg /\ ~c.allMatches /\ Len(Matched(c)) = 1 =>
                    LET e == Matched(c)[1]
                    IN  res.value[f] =
                            IF c.attr = NoArg THEN AutoDetected(e)
                            ELSE IF ExtractedText(e, c) = <<>> THEN Null
                                 ELSE Str(ExtractedText(e, c))


----------------------------------------------------------------------------
(* Claims about the options and the truncation *)

\* The output without truncation: the converted text, after the search
\* filter on markdown.
NaturalOutput ==
    IF args.format = "markdown" /\ OptionsSearch # ""
    THEN SearchFilter(proc.content, OptionsSearch)
    ELSE proc.content

\* fetch_url returned the formatted content.
Formatted == pc = "opt_done" /\ tool = "fetch_url" /\ res.kind = "result"

Min(a, b) == IF a <= b THEN a ELSE b

\* C19: with maxLength = N > 0 the output has exactly min(N, natural length)
\* characters and is the prefix of that length of the untruncated output;
\* with maxLength = 0 it is the untruncated output; the cut comes after the
\* search filter, in both formats.
C19_TruncationIsLastAndExact ==
    Formatted =>
        /\ options.maxLength > 0 =>
              /\ Len(res.content) = Min(options.maxLength, Len(NaturalOutput))
              /\ res.content = SubSeq(NaturalOutput, 1, Len(res.content))
        /\ options.maxLength = 0 => res.content = NaturalOutput

\* A markdown text of which the search filter removed a line and the cut
\* removed characters of what was left.
C19_Witness ==
    /\ Formatted
    /\ args.format = "markdown"
    /\ NaturalOutput # proc.content
    /\ options.maxLength > 0
    /\ Len(NaturalOutput) > options.maxLength
    /\ Len(res.content) = options.maxLength

\* C20: the options built for an accepted request have a positive timeout,
\* whatever the timeout and maxLength arguments are, and with maxLength 0
\* the content is not cut.
C20_TimeoutPositiveZeroMeansUncut ==
    /\ pc \in {"opt_format", "opt_done"} /\ res.kind # "rejected" => options.timeout > 0
    /\ Formatted /\ options.maxLength = 0 => res.content = NaturalOutput


----------------------------------------------------------------------------
(* Claims about the sanitizer *)

\* C21: cleanHtml never throws and returns a string; when the cleaning
\* fails inside, the string is the html argument, unchanged.
C21_FailureReturnsArgument ==
    pc = "cleaned" =>
        /\ proc.content.wrap \in {"page", "shell", "none"}
        /\ proc.thrown # NoArg => proc.content = proc.html

\* C22: a second pass of cleanHtml over its own output does not make the
\* output longer (the least the idempotence of the sanitizer asks for).
C22_SecondPassDoesNotGrow ==
    pc = "cleaned_again" => HtmlSize(proc.content) <= HtmlSize(proc.html)

\* The place of a tag in the order the empty elements are visited in.
VisitRank(tag) ==
    CASE tag = "div" -> 1 [] tag = "span" -> 2 [] tag = "p" -> 3 [] tag = "section" -> 4
      [] OTHER -> 0

\* An element of a kind that is removed when empty, without text and
\* without children.
EmptyContainer(n) == VisitRank(n.tag) > 0 /\ ~HasText(n) /\ n.children = <<>>

\* A container without text whose children are all empty containers.
HoldsOnlyEmpties(n) ==
    /\ VisitRank(n.tag) > 0 /\ n.text \in {"", " "}
    /\ n.children # <<>>
    /\ \A i \in DOMAIN n.children : EmptyContainer(n.children[i])

\* C28: the removal of empty elements is one pass per kind, in the order
\* div, span, p, section and in document order: a container whose children
\* are all empty containers stays, as an empty element, when one of them is
\* of its own kind or of a kind visited later, and is removed only when all
\* of them are of kinds visited before its own.
C28_EmptyRemovalIsSinglePass ==
    pc = "cleaned" /\ proc.thrown = NoArg =>
        \A i \in DOMAIN proc.html.nodes :
            LET n == proc.html.nodes[i]
            IN  HoldsOnlyEmpties(n) =>
                    proc.content.nodes =
                        IF \E k \in DOMAIN n.children :
                              VisitRank(n.children[k].tag) >= VisitRank(n.tag)
                        THEN <<Node(n.tag, "", <<>>)>>
                        ELSE <<>>

\* A div whose only child is an empty div came out as an empty div.
C28_Witness ==
    /\ pc = "cleaned" /\ proc.thrown = NoArg
    /\ proc.html.nodes = <<Node("div", "", <<Node("div", "", <<>>)>>)>>
    /\ proc.content.nodes = <<Node("div", "", <<>>)>>


----------------------------------------------------------------------------
(* Claims about the formatter *)

\* processContent returned: fetch_url has its success result.
ContentReturned == tool = "fetch_url" /\ res.kind = "result" /\ res.success

\* The Markdown blocks the search pattern keeps.
KeptBlocks(md) ==
    IF OptionsSearch = "" THEN md
    ELSE SelectSeq(md, LAMBDA line : RegexTest(OptionsSearch, line[2]))

MatchingLines(content, search) ==
    SelectSeq(SplitLines(content), LAMBDA line :
        \E i \in DOMAIN line :
            CASE search = "1+" -> line[i] = "1"
              [] search = "(a)|1" -> line[i] \in {"a", "A", "1"}
              [] OTHER -> FALSE)

\* C24: with a search pattern and markdown format the output is exactly the
\* lines of the Markdown that match the pattern, case ignored, in their
\* order; in html format the pattern changes nothing.
C24_SearchFiltersMarkdownOnly ==
    Formatted /\ options.maxLength <= 0 =>
        res.content =
            IF args.format = "markdown" /\ OptionsSearch # ""
            THEN JoinLines(MatchingLines(proc.content, OptionsSearch))
            ELSE proc.content

\* A Markdown text of two lines of which the pattern, written in lower
\* case, keeps the one in upper case.
C24_Witness ==
    /\ Formatted /\ options.maxLength <= 0
    /\ args.format = "markdown"
    /\ OptionsSearch = "(a)|1"
    /\ proc.content = <<"A", "\n">>
    /\ res.content = <<"A">>

\* The Escape presses of the request so far.
Presses == {i \in DOMAIN calls : calls[i][1] = "press"}

\* The cleaned first snapshot is shorter than MIN_CONTENT_LENGTH.
TooSmall == CharLen(Trim(cleanHtml(proc.html))) < MIN_CONTENT_LENGTH

\* C25: the modal-dismissal retry happens at most once in a formatting call
\* and only when the cleaned content, trimmed, has fewer than 100
\* characters: Escape is pressed at most 3 times, after that the second
\* snapshot is taken and, when it has content, cleaned in place of the
\* first; otherwise no key is pressed and no second snapshot is taken.
C25_ModalRetryOnceAndOnlyWhenSmall ==
    /\ Cardinality(Presses) <= ModalPresses
    /\ Presses # {} <=> proc.retried
    /\ proc.retried => TooSmall
    /\ snap.caller = "modal" => proc.retried
    /\ pc = "pc_format" /\ ~proc.retried => ~TooSmall /\ proc.content = cleanHtml(proc.html)
    /\ pc = "pc_format" /\ proc.retried =>
          /\ snap.caller = "modal" /\ snap.returned
          /\ proc.content = cleanHtml(IF snap.html # <<>> THEN snap.html ELSE proc.html)

\* Three presses, then a second snapshot that differs from the first and is
\* cleaned for the formatting.
C25_Witness ==
    /\ pc = "pc_format"
    /\ proc.retried
    /\ Cardinality(Presses) = ModalPresses
    /\ snap.html # <<>> /\ snap.html # proc.html
    /\ proc.content = cleanHtml(snap.html)
    /\ proc.content # cleanHtml(proc.html)

\* The request ended: with a rejection, a result, or an error thrown to the
\* caller.
RequestEnded ==
    pc = "done" /\ res.kind \in {"rejected", "result", "links", "fields", "exception"}

\* C27: when every call to the browser returns or fails in the end, a closed
\* page included, every request ends, with a result or with an error;
\* safelyGetPageInfo makes at most `retries` attempts and dismissModals at
\* most ModalPresses presses.
C27_RequestNeverHangs ==
    /\ <>RequestEnded
    /\ [](snap.attempt <= retries)
    /\ [](Cardinality(Presses) <= ModalPresses)

\* A request ended although the page was closed under it in the third
\* attempt of a snapshot.
C27_Witness ==
    /\ RequestEnded
    /\ snap.attempt = retries
    /\ \E i \in DOMAIN calls : calls[i][2] = ClosedMsg


----------------------------------------------------------------------------
(* Claims about the browser's lifetime *)

\* The positions of browserService.cleanup in the calls of the request.
CleanupCalls == {i \in DOMAIN calls : calls[i][1] = "cleanup"}

\* C29: a rejected request never touches the browser; a request that passed
\* validation calls cleanup exactly once on every way out, a launch failure
\* and an error thrown by the page included, and cleanup is its last call:
\* every page operation comes before it, none after it.
C29_CleanupExactlyOnceAndLast ==
    /\ pc = "start" \/ res.kind = "rejected" => calls = <<>>
    /\ pc \notin {"start", "done"} => CleanupCalls = {}
    /\ pc = "done" /\ res.kind # "rejected" => CleanupCalls = {Len(calls)}

\* A request that ended with an error thrown by the page, after the page was
\* created, and cleaned up once, last.
C29_Witness ==
    /\ pc = "done"
    /\ res.kind = "exception"
    /\ \E i \in DOMAIN calls : calls[i] = Call("createPage", "ok")
    /\ CleanupCalls = {Len(calls)}


----------------------------------------------------------------------------
(* Claims about the late extraction *)

\* The errors raised after the navigation timeout: by an attempt of a
\* snapshot, or by the formatting.
SecondaryErrors ==
    {snap.errors[i] : i \in DOMAIN snap.errors} \cup ({proc.thrown} \ {NoArg})

\* C30: after a navigation timeout, a request that ends as a failure reports
\* the timeout of the navigation as its cause, whatever the late snapshot or
\* the formatting raised; it fails whenever the late snapshot is empty or
\* blank, the snapshot raised or the formatting raised; it succeeds only
\* from a late snapshot that is not blank and was formatted without error.
C30_LateFailureReportsTimeout ==
    (FetchEnded /\ navErr = TimeoutMsg) =>
        /\ ~res.success =>
              /\ res.error = TimeoutMsg
              /\ res.content.cause = TimeoutMsg
              /\ res.error \notin SecondaryErrors
        /\ (proc.caller = "none" \/ snap.thrown # NoArg \/ proc.thrown # NoArg)
              => ~res.success
        /\ res.success =>
              /\ proc.caller = "late"
              /\ HtmlRetrieved(proc.html)
              /\ snap.thrown = NoArg /\ proc.thrown = NoArg

\* After a navigation timeout the late snapshot was taken and its formatting
\* raised: the failure carries the timeout.
C30_Witness ==
    /\ FetchEnded /\ navErr = TimeoutMsg
    /\ proc.caller = "late"
    /\ proc.thrown = FormatMsg
    /\ ~res.success /\ res.error = TimeoutMsg


----------------------------------------------------------------------------
(* Claims about concurrent requests *)

\* What request q returns when it runs alone on a page that serves q.served.
RunAlone(q) ==
    IF EmptyContent(q.served)
    THEN FailureResult(q.args.url, EmptyContentMsg)
    ELSE SuccessResult(processContent(q.served, q.served, q.args.format,
                                      Options("fetch_url", q.args).maxLength))

\* C26: however the steps of two concurrent requests interleave, each request
\* ends with the result it has when it runs alone on the same page, each
\* keeps the options it built, and no page is held by two requests.
C26_ConcurrentRequestsDoNotInterfere ==
    /\ \A r \in DOMAIN requests :
          /\ requests[r].pc = "done" => requests[r].res = RunAlone(requests[r])
          /\ requests[r].pc # "start" =>
                requests[r].options = Options("fetch_url", requests[r].args)
    /\ \A h \in DOMAIN openPages : Cardinality(openPages[h].users) <= 1
    /\ \A r, s \in DOMAIN requests :
          r # s /\ requests[r].page # 0 => requests[r].page # requests[s].page

\* The position of the call of op by request r.
CallAt(op, r) == CHOOSE i \in DOMAIN calls : calls[i] = Call(op, r)

\* Both requests ended with different results, the second having navigated,
\* read and closed its page between the navigation and the snapshot of the
\* first.
C26_Witness ==
    /\ \A r \in DOMAIN requests : requests[r].pc = "done"
    /\ requests[1].res # requests[2].res
    /\ requests[1].res.success /\ requests[2].res.success
    /\ CallAt("goto", 1) < CallAt("goto", 2)
    /\ CallAt("cleanup", 2) < CallAt("content", 1)

============================================================================
